---- MODULE Spec2Model ----
(***************************************************************************)
(* Verification model of the chat-assistant application (app.py and        *)
(* models/agent.py): tool materialization in initialize_agent, the agent   *)
(* handle lifecycle, and the streaming reducer of /ask.                    *)
(*                                                                         *)
(* Three specifications share the module:                                  *)
(*   SpecMat    the materialization loop of initialize_agent, one tool     *)
(*              reference per step;                                        *)
(*   SpecQuery  one /ask query: ask.generate reducing the agent's step     *)
(*              events under its deadline;                                 *)
(*   SpecProc   the process: initialize_agent calls, /ask queries and      *)
(*              shutdown interleaved on the single event loop.             *)
(***************************************************************************)
EXTENDS Integers, Sequences, FiniteSets, TLC

VARIABLES
    config,        \* the persisted user configuration (the users collection, one user)
    temp_tools,    \* the staging area: names of tools whose artifact file is present
    mat,           \* locals of the running initialize_agent call (SpecMat)
    q,             \* locals of the running ask.generate call (SpecQuery)
    checkpointer,  \* MemorySaver: thread id -> stored message sequence
    proc           \* process state: agent global, tool_count, clients, handlers (SpecProc)

vars == <<config, temp_tools, mat, q, checkpointer, proc>>

-----------------------------------------------------------------------------
(* Bounds of the model.                                                    *)

MaxTools == 2      \* tool references in a user configuration
MaxRuns == 2       \* successive initialize_agent runs in SpecMat

-----------------------------------------------------------------------------
(* Values.                                                                 *)

ToolNames == {"weather", "search"}
Versions == {"1.0.0", "2.0.0"}
DefaultVersion == "0.0.0"
Transports == {"stdio", "sse", "grpc"}     \* "grpc": a transport the code does not know
NoUrl == "none"
ManifestFile == "server.py"

\* A ToolReference as stored in tool_config.tools; url is the optional 'url' key.
ToolRefs == [name : ToolNames, url : {NoUrl, "http://ref"}]

\* A manifest as returned by the registry.
Manifests == [version : Versions, transport : Transports, file : {ManifestFile},
              url : {"http://manifest"}]

\* What the environment does during one loop iteration: whether
\* fetch_tool_manifest returns, the manifest it returns, whether download_tool
\* and install_dependencies return.
IterEnvs ==
    { e \in [fetch : BOOLEAN, manifest : Manifests, download : BOOLEAN, install : BOOLEAN] :
        /\ (~e.fetch => /\ e.manifest = [version |-> "1.0.0", transport |-> "stdio",
                                          file |-> ManifestFile, url |-> "http://manifest"]
                        /\ e.download /\ e.install)
        /\ (e.manifest.transport # "stdio" => e.download /\ e.install)
        /\ (~e.download => e.install) }

\* config['env_vars']: per-tool environment maps (only "weather" has one).
EnvVarsOf(env_vars, name) == IF name \in DOMAIN env_vars THEN env_vars[name] ELSE "{}"

\* dict.get(tool_name, "0.0.0") on the tool_versions table
VersionGet(tool_versions, name) ==
    IF name \in DOMAIN tool_versions THEN tool_versions[name] ELSE DefaultVersion

\* tool_versions[tool_name] = current_version
VersionSet(tool_versions, name, v) ==
    [n \in DOMAIN tool_versions \cup {name} |-> IF n = name THEN v ELSE tool_versions[n]]

VersionTables == UNION { [S -> Versions] : S \in SUBSET ToolNames }

\* the local variable tool_config before its first assignment
Unbound == [name |-> "", transport |-> "unbound"]

StdioConfig(name, manifest, env_vars) ==
    [name |-> name, transport |-> "stdio", command |-> "python",
     args |-> <<"temp_tools", name, manifest.file>>, env |-> EnvVarsOf(env_vars, name)]

\* A mutant of the sse descriptor: the manifest's URL is always used.
SseConfigManifestUrl(ref, manifest) ==
    [name |-> ref.name, transport |-> "sse", url |-> manifest.url]

\* tool.get('url', manifest.get('url'))
SseConfig(ref, manifest) ==
    [name |-> ref.name, transport |-> "sse",
     url |-> IF ref.url # NoUrl THEN ref.url ELSE manifest.url]

-----------------------------------------------------------------------------
(* initialize_agent: the materialization loop (app.py 140-232).            *)

\* Sequences over S of length at most n
SeqUpTo(S, n) == UNION { [1..k -> S] : k \in 0..n }

UserConfigs ==
    [tools : SeqUpTo(ToolRefs, MaxTools),
     instructions : {"be brief"},
     env_vars : {[weather |-> "KEY=1"]},
     selected_model : {"gpt-4o"},
     tool_versions : VersionTables]

\* Locals of initialize_agent before the call starts.  log, envs and downloads
\* record what the loop did; staged is the content of the staging area the
\* call found, before it cleared it (recorded in SpecRerun and SpecProc).
MatIdle(run) ==
    [pc |-> "idle", run |-> run, cfg |-> <<>>, tools |-> <<>>, i |-> 1,
     updated_tools |-> <<>>, origin |-> <<>>, tool_config |-> Unbound,
     tool_versions |-> <<>>, connections |-> <<>>,
     log |-> <<>>, envs |-> <<>>, downloads |-> <<>>, escaped |-> FALSE,
     staged |-> {}]

\* A mutant of the staging clear: the directory is kept.
ClearStagingKeep(staging) == staging

\* shutil.rmtree(temp_base_dir); os.makedirs(temp_base_dir)   (lines 156-160)
ClearStaging(staging) == {}

\* Lines 146-165: load the configuration, clear the staging area, set up the loop.
MatStart(m, cfg) ==
    [m EXCEPT !.pc = "loop", !.cfg = cfg, !.tools = cfg.tools, !.i = 1,
              !.updated_tools = <<>>, !.origin = <<>>, !.tool_config = Unbound,
              !.tool_versions = cfg.tool_versions, !.connections = <<>>,
              !.log = <<>>, !.envs = <<>>, !.downloads = <<>>]

\* A mutant of the loop's except clause: the exception leaves the loop.
OnToolErrorRaise(m, idx, why) ==
    [m EXCEPT !.pc = "raised", !.escaped = TRUE, !.log = Append(@, why)]

\* Lines 217-219: except Exception: print; continue.  why names the statement
\* that raised.
OnToolError(m, idx, why) ==
    [m EXCEPT !.i = idx + 1, !.log = Append(@, why)]

\* A mutant of the append: the descriptor is filed under the name of the
\* reference of the current iteration.
AppendToolConfigRenamed(m, idx) ==
    IF m.tool_config = Unbound
    THEN OnToolError(m, idx, "unbound")
    ELSE [m EXCEPT !.updated_tools =
                      Append(@, [m.tool_config EXCEPT !.name = m.tools[idx].name]),
                   !.origin = Append(@, idx), !.i = idx + 1,
                   !.log = Append(@, "appended")]

\* Line 216: updated_tools.append(tool_config); an unbound tool_config raises
\* UnboundLocalError inside the try block.
AppendToolConfig(m, idx) ==
    IF m.tool_config = Unbound
    THEN OnToolError(m, idx, "unbound")
    ELSE [m EXCEPT !.updated_tools = Append(@, m.tool_config),
                   !.origin = Append(@, idx), !.i = idx + 1,
                   !.log = Append(@, "appended")]

\* Lines 166-219: one iteration of the loop, for the reference at m.i, with the
\* environment's answers e.  Returns the locals and the staging area after it.
MatIter(m, staging, e) ==
    LET idx == m.i
        ref == m.tools[idx]
        name == ref.name
        man == e.manifest
        cached == VersionGet(m.tool_versions, name)
        present == name \in staging
        m0 == [m EXCEPT !.envs = Append(@, e)]
    IN  IF ~e.fetch
        THEN [m |-> OnToolError(m0, idx, "fetch"), staging |-> staging]
        ELSE IF man.version # cached \/ ~present
        THEN IF man.transport = "stdio"
             THEN IF ~e.download
                  THEN [m |-> OnToolError(m0, idx, "download"), staging |-> staging]
                  ELSE LET m1 == [m0 EXCEPT !.downloads = Append(@, name)]
                           st1 == staging \cup {name}
                       IN  IF ~e.install
                           THEN [m |-> OnToolError(m1, idx, "install"), staging |-> st1]
                           ELSE [m |-> AppendToolConfig(
                                          [m1 EXCEPT !.tool_config =
                                                        StdioConfig(name, man, m.cfg.env_vars),
                                                     !.tool_versions =
                                                        VersionSet(@, name, man.version)],
                                          idx),
                                 staging |-> st1]
             ELSE IF man.transport = "sse"
             THEN [m |-> AppendToolConfig(
                            [m0 EXCEPT !.tool_config = SseConfig(ref, man),
                                       !.tool_versions = VersionSet(@, name, man.version)],
                            idx),
                   staging |-> staging]
             ELSE [m |-> AppendToolConfig(m0, idx), staging |-> staging]
        ELSE IF man.transport = "stdio"
             THEN [m |-> AppendToolConfig(
                            [m0 EXCEPT !.tool_config =
                                          StdioConfig(name, man, m.cfg.env_vars)], idx),
                   staging |-> staging]
             ELSE IF man.transport = "sse"
             THEN [m |-> AppendToolConfig(
                            [m0 EXCEPT !.tool_config = SseConfig(ref, man)], idx),
                   staging |-> staging]
             ELSE [m |-> AppendToolConfig(m0, idx), staging |-> staging]

\* connection = {k: v for k, v in tool_config.items() if k != "name"}
Connection(tc) ==
    [k \in DOMAIN tc \ {"name"} |-> tc[k]]

\* Lines 222-227: connections[tool_name] = connection, in list order (a later
\* entry of the same name replaces an earlier one).
RECURSIVE Connections(_)
Connections(updated) ==
    IF updated = <<>> THEN <<>>
    ELSE LET rest == Connections(SubSeq(updated, 1, Len(updated) - 1))
             tc == updated[Len(updated)]
         IN  [n \in DOMAIN rest \cup {tc.name} |->
                 IF n = tc.name THEN Connection(tc) ELSE rest[n]]

\* A mutant of the end of the loop: the references that yielded no descriptor
\* are dropped from the configuration that is saved.
MatEndPrune(m) ==
    [m EXCEPT !.pc = "create", !.connections = Connections(m.updated_tools),
              !.cfg = [@ EXCEPT !.tool_versions = m.tool_versions,
                                !.tools = SelectSeq(@, LAMBDA t :
                                             t.name \in DOMAIN Connections(m.updated_tools))]]

\* A mutant of the end of the loop: the table is not put back into config.
MatEndStale(m) ==
    [m EXCEPT !.pc = "create", !.connections = Connections(m.updated_tools)]

\* Lines 221-232: build connections, config['tool_versions'] = tool_versions.
MatEnd(m) ==
    [m EXCEPT !.pc = "create", !.connections = Connections(m.updated_tools),
              !.cfg = [@ EXCEPT !.tool_versions = m.tool_versions]]

\* save_user_config(user_id, config): $set of every field of the loaded document
save_user_config(stored, cfg) == cfg

-----------------------------------------------------------------------------
(* SpecMat: initialize_agent's materialization, one reference per step.    *)

QNone == [state |-> "NONE"]
ProcNone == [serving |-> FALSE]

InitMat ==
    /\ config \in UserConfigs
    /\ temp_tools \in SUBSET ToolNames
    /\ mat = MatIdle(0)
    /\ q = QNone
    /\ checkpointer = <<>>
    /\ proc = ProcNone

\* initialize_agent is called (login, or settings apply): lines 140-165
MatBegin ==
    /\ mat.pc \in {"idle", "create"}
    /\ mat.run < MaxRuns
    /\ mat' = MatStart([mat EXCEPT !.run = @ + 1], config)
    /\ temp_tools' = ClearStaging(temp_tools)
    /\ UNCHANGED <<config, q, checkpointer, proc>>

\* one pass of the for loop, lines 166-219
MatIterate ==
    /\ mat.pc = "loop"
    /\ mat.i <= Len(mat.tools)
    /\ \E e \in IterEnvs :
          LET r == MatIter(mat, temp_tools, e)
          IN  /\ mat' = r.m
              /\ temp_tools' = r.staging
    /\ UNCHANGED <<config, q, checkpointer, proc>>

\* after the loop, lines 221-232
MatFinish ==
    /\ mat.pc = "loop"
    /\ mat.i > Len(mat.tools)
    /\ mat' = MatEnd(mat)
    /\ config' = save_user_config(config, mat'.cfg)
    /\ UNCHANGED <<temp_tools, q, checkpointer, proc>>

NextMat == MatBegin \/ MatIterate \/ MatFinish

SpecMat == InitMat /\ [][NextMat]_vars

-----------------------------------------------------------------------------
(* Properties of the materialization loop.                                 *)

\* Reference k raised in its manifest fetch, artifact download or dependency install.
RefFailed(k) == mat.log[k] \in {"fetch", "download", "install"}

\* The environment lets every step of reference k succeed, and its manifest
\* declares a transport the loop knows.
RefSucceeds(k) ==
    LET e == mat.envs[k]
    IN  e.fetch /\ e.download /\ e.install /\ e.manifest.transport \in {"stdio", "sse"}

\* The descriptor the loop builds for reference k from k's own manifest.
OwnDescriptor(k) ==
    LET e == mat.envs[k]
        ref == mat.tools[k]
    IN  IF e.manifest.transport = "stdio"
        THEN StdioConfig(ref.name, e.manifest, mat.cfg.env_vars)
        ELSE SseConfig(ref, e.manifest)

\* Iteration k appended an entry to updated_tools.
Yielded(k) == \E p \in 1..Len(mat.origin) : mat.origin[p] = k

\* C1: partial-failure isolation.  A reference whose manifest fetch, artifact
\* download or dependency install fails yields no descriptor; no exception
\* leaves the loop; every reference whose own steps succeed yields the
\* descriptor built from its manifest, and after the loop that reference's
\* name is a key of the connections map.
C1_PartialFailureIsolation ==
    /\ ~mat.escaped
    /\ mat.pc # "raised"
    /\ \A k \in 1..Len(mat.log) :
          /\ ~mat.envs[k].fetch => ~Yielded(k)
          /\ RefFailed(k) => ~Yielded(k)
          /\ RefSucceeds(k) =>
                \E p \in 1..Len(mat.origin) :
                    mat.origin[p] = k /\ mat.updated_tools[p] = OwnDescriptor(k)
    /\ mat.pc = "create" =>
          /\ Len(mat.log) = Len(mat.tools)
          /\ \A k \in 1..Len(mat.tools) :
                RefSucceeds(k) => mat.tools[k].name \in DOMAIN mat.connections
          /\ \A n \in DOMAIN mat.connections :
                \E k \in 1..Len(mat.tools) :
                    mat.tools[k].name = n /\ mat.log[k] = "appended"

\* C1 witness: the loop has finished; the first reference failed in its fetch,
\* one failed in its download or install, and a later reference was materialized.
C1_Witness ==
    /\ mat.pc = "create"
    /\ Len(mat.tools) = 2
    /\ \/ mat.log[1] = "fetch"
       \/ mat.log[1] \in {"download", "install"}
    /\ RefSucceeds(2)
    /\ mat.tools[2].name \in DOMAIN mat.connections
    /\ mat.tools[1].name \notin DOMAIN mat.connections

-----------------------------------------------------------------------------
(* /ask: the streaming reducer of ask.generate (app.py 328-400).           *)
(* A Python str is a sequence of tokens; "".join is concatenation.         *)

MaxSteps == 2      \* step events the agent emits for one query

RECURSIVE Join(_)
\* the join of a list of str
Join(parts) == IF parts = <<>> THEN <<>> ELSE Head(parts) \o Join(Tail(parts))

\* The fenced json block the code formats around str(data)
ToolFragment(data) == <<"fence-json">> \o data \o <<"fence">>

\* A mutant of the text frame: only the newest fragment is sent.
TextEventLast(acc) == [text |-> acc[Len(acc)]]

\* A mutant of the labelled tool frame: the label is left out.
LabelledToolEventPlain(acc, label) == [tool |-> Join(acc)]

\* The JSON bodies of the output frames .
TextEvent(acc) == [text |-> Join(acc)]
ToolEvent(acc) == [tool |-> Join(acc)]
LabelledToolEvent(acc, label) == [tool |-> Join(acc), tool_label |-> label]
ErrorEvent(msg) == [error |-> msg]

NotInitializedMessage == <<"Agent has not been initialized.">>
\* A mutant of the timeout message: the configured timeout is left out.
TimeoutMessageNoValue(timeout_seconds) == <<"Request timed out">>
\* Request timed out after {timeout_seconds} seconds
TimeoutMessage(timeout_seconds) ==
    <<"Request timed out after ", timeout_seconds, " seconds">>
\* Error occurred during query processing: {str(e)}
FailureMessage(desc) == <<"Error occurred during query processing: ", desc>>

\* Message content: a str, or a list of content items.
Str(v) == [kind |-> "str", val |-> v]
List(items) == [kind |-> "list", items |-> items]

NoKwargs == [none |-> <<>>]
AI(content, tc, itc, tcc, kw) ==
    [cls |-> "ai", content |-> content, tool_calls |-> tc, invalid_tool_calls |-> itc,
     tool_call_chunks |-> tcc, additional_kwargs |-> kw]
ToolMsg(content) == [cls |-> "tool", content |-> Str(content)]
HumanMsg(content) == [cls |-> "human", content |-> Str(content)]

\* A tool call: its name and the tokens of its str().
Call(name, text) == [name |-> name, str |-> <<text>>]

\* The reducer's locals: accumulated_text, accumulated_tool, the frames yielded
\* so far, and the description of the exception raised ("" for none).
Reducer(text, tool, events) == [text |-> text, tool |-> tool, events |-> events, exc |-> ""]

Raise(r, desc) == [r EXCEPT !.exc = desc]

\* Lines 354-355 / 359-360: append a text fragment, yield the cumulative text.
AppendText(r, frag) ==
    LET acc == Append(r.text, frag)
    IN  [r EXCEPT !.text = acc, !.events = Append(@, TextEvent(acc))]

\* Lines 363-364, 367-368, 375-376, 379-380: append a tool fragment, yield the trace.
AppendTool(r, data) ==
    LET acc == Append(r.tool, ToolFragment(data))
    IN  [r EXCEPT !.tool = acc, !.events = Append(@, ToolEvent(acc))]

\* Lines 371-372, 382-383: the same with a tool_label.
AppendToolLabelled(r, data, label) ==
    LET acc == Append(r.tool, ToolFragment(data))
    IN  [r EXCEPT !.tool = acc, !.events = Append(@, LabelledToolEvent(acc, label))]

\* Lines 358-364: one item of a list-valued content.  An item that is not a
\* dict has no .get (AttributeError); a text item without "text" is a KeyError.
ReduceItem(r, item) ==
    IF "nondict" \in DOMAIN item THEN Raise(r, "AttributeError")
    ELSE IF "type" \in DOMAIN item /\ item.type = "text"
    THEN IF "text" \in DOMAIN item THEN AppendText(r, item.text)
         ELSE Raise(r, "KeyError")
    ELSE IF "type" \in DOMAIN item /\ item.type = "tool_use"
    THEN AppendTool(r, IF "partial_json" \in DOMAIN item THEN item.partial_json ELSE <<>>)
    ELSE r

RECURSIVE ReduceItems(_, _)
\* Line 357: for item in content, until an item raises.
ReduceItems(r, items) ==
    IF items = <<>> \/ r.exc # "" THEN r
    ELSE ReduceItems(ReduceItem(r, Head(items)), Tail(items))

\* Lines 351-383: one message of a step event.
ReduceMessage(r, msg) ==
    IF msg.cls = "ai"
    THEN IF msg.content.kind = "str" /\ msg.content.val # <<>>
         THEN AppendText(r, msg.content.val)
         ELSE IF msg.content.kind = "list" /\ Len(msg.content.items) > 0
         THEN ReduceItems(r, msg.content.items)
         ELSE IF msg.tool_calls # <<>> /\ Len(msg.tool_calls[1].name) > 0
         THEN AppendTool(r, msg.tool_calls[1].str)
         ELSE IF msg.invalid_tool_calls # <<>>
         THEN AppendToolLabelled(r, msg.invalid_tool_calls[1].str, "Invalid Tool Call")
         ELSE IF msg.tool_call_chunks # <<>>
         THEN AppendTool(r, msg.tool_call_chunks[1].str)
         ELSE IF "tool_calls" \in DOMAIN msg.additional_kwargs
         THEN IF msg.additional_kwargs.tool_calls = <<>>
              THEN Raise(r, "IndexError")
              ELSE AppendTool(r, msg.additional_kwargs.tool_calls[1].str)
         ELSE r
    ELSE IF msg.cls = "tool"
    THEN AppendToolLabelled(r, msg.content.val, "Tool Response")
    ELSE r

RECURSIVE ReduceMessages(_, _)
\* Line 350: for message in chunk['agent']['messages'], until one raises.
ReduceMessages(r, msgs) ==
    IF msgs = <<>> \/ r.exc # "" THEN r
    ELSE ReduceMessages(ReduceMessage(r, Head(msgs)), Tail(msgs))

\* Lines 349-350: only a chunk of the 'agent' node that holds messages is reduced.
ReduceChunk(r, chunk) ==
    IF chunk.node = "agent" THEN ReduceMessages(r, chunk.messages) ELSE r

-----------------------------------------------------------------------------
(* The conversation history store (models/agent.py 48-66) and the agent's  *)
(* checkpoint.                                                             *)

ThreadIds == {"t1", "t2"}

\* A message as the checkpoint stores it.
Stored(msg) == [type |-> msg.cls, content |-> msg.content]

\* Line 60: item["text"] for item in content if item["type"] == "text" raises
\* for an item that is no dict or has no "type".
ItemRaises(item) ==
    \/ "type" \notin DOMAIN item
    \/ item.type = "text" /\ "text" \notin DOMAIN item

RECURSIVE TextOf(_)
TextOf(items) ==
    IF items = <<>> THEN <<>>
    ELSE (IF Head(items).type = "text" THEN Head(items).text ELSE <<>>) \o TextOf(Tail(items))

\* Lines 56-61: one stored message as a {role, content} entry.
HistoryEntry(sm) ==
    [role |-> IF sm.type = "human" THEN "user" ELSE "assistant",
     content |-> IF sm.content.kind = "list" THEN TextOf(sm.content.items)
                 ELSE sm.content.val]

\* get_conversation_history(checkpointer, thread_id): [] when the thread has no
\* checkpoint, and [] when reading a message raises (lines 64-66).
get_conversation_history(cp, thread_id) ==
    IF thread_id \notin DOMAIN cp THEN <<>>
    ELSE LET msgs == cp[thread_id]
         IN  IF \E k \in 1..Len(msgs) :
                    /\ msgs[k].content.kind = "list"
                    /\ \E j \in 1..Len(msgs[k].content.items) :
                          ItemRaises(msgs[k].content.items[j])
             THEN <<>>
             ELSE [k \in 1..Len(msgs) |-> HistoryEntry(msgs[k])]

\* A mutant of the checkpoint write: the thread id of the query is ignored.
CheckpointAppendShared(cp, thread_id, msgs) ==
    [t \in DOMAIN cp \cup {"t1"} |->
        IF t = "t1"
        THEN (IF "t1" \in DOMAIN cp THEN cp["t1"] ELSE <<>>) \o msgs
        ELSE cp[t]]

\* The agent was built with checkpointer=checkpointer (models/agent.py 36) and
\* is driven with thread_id in its config (app.py 343-346): it stores the
\* messages of the thread under that id as it runs.
CheckpointAppend(cp, thread_id, msgs) ==
    [t \in DOMAIN cp \cup {thread_id} |->
        IF t = thread_id
        THEN (IF thread_id \in DOMAIN cp THEN cp[thread_id] ELSE <<>>) \o msgs
        ELSE cp[t]]

RECURSIVE StoredAll(_)
StoredAll(msgs) ==
    IF msgs = <<>> THEN <<>> ELSE <<Stored(Head(msgs))>> \o StoredAll(Tail(msgs))

\* What the agent stores when it yields a step event: on its first activity the
\* input message of the query, then the messages of the step.
AgentStores(qr, msgs) ==
    (IF qr.started THEN <<>> ELSE <<Stored(HumanMsg(qr.query))>>) \o StoredAll(msgs)

-----------------------------------------------------------------------------
(* ask.generate as a state machine.                                        *)

NoAgent == [id |-> 0, tools |-> {}, client |-> 0]

\* Locals of one /ask request (lines 322-336) before generate() runs; consumed
\* lists the step events the loop has taken from the agent so far.
NewQuery(thread_id, query, timeout_seconds) ==
    [state |-> "PENDING", thread_id |-> thread_id, query |-> query,
     timeout_seconds |-> timeout_seconds, agent |-> NoAgent,
     text |-> <<>>, tool |-> <<>>, events |-> <<>>, steps |-> 0,
     history |-> <<>>, base |-> <<>>, started |-> FALSE, fired |-> FALSE,
     raised |-> "", trail |-> <<"PENDING">>, consumed |-> <<>>]

Goto(qr, state) == [qr EXCEPT !.state = state, !.trail = Append(@, state)]

\* A mutant of the initialized-check: the query is driven whatever the agent
\* global holds.
StartQueryUnchecked(qr, agent, cp) ==
    [Goto(qr, "STREAMING") EXCEPT !.agent = agent,
        !.base = get_conversation_history(cp, qr.thread_id)]

\* Lines 330-336: the initialized-check; the agent global is read here and
\* handed to astream_graph at line 341 with no suspension in between.
StartQuery(qr, agent, cp) ==
    IF agent = NoAgent
    THEN [Goto(qr, "NO_AGENT") EXCEPT !.events = <<ErrorEvent(NotInitializedMessage)>>]
    ELSE [Goto(qr, "STREAMING") EXCEPT !.agent = agent,
              !.base = get_conversation_history(cp, qr.thread_id)]

\* Lines 395-397: except asyncio.TimeoutError.
OnTimeoutError(qr) ==
    [Goto(qr, "TIMED_OUT") EXCEPT
        !.events = Append(@, ErrorEvent(TimeoutMessage(qr.timeout_seconds)))]

\* A mutant of the except clause: the error is reported from inside the loop,
\* which goes on consuming step events.
OnOtherExceptionContinue(qr, desc) ==
    [qr EXCEPT !.events = Append(@, ErrorEvent(FailureMessage(desc)))]

\* Lines 398-400: except Exception as e.
OnOtherException(qr, desc) ==
    [Goto(qr, "FAILED") EXCEPT !.events = Append(@, ErrorEvent(FailureMessage(desc)))]

\* Lines 395-400: the except clauses, tried in order; asyncio.TimeoutError is the
\* builtin TimeoutError, whoever raised it.
OnException(qr, exc) ==
    IF exc.cls = "TimeoutError" THEN OnTimeoutError(qr) ELSE OnOtherException(qr, exc.desc)

\* A mutant of the loop: the agent global is read again at every step event.
OnChunkRebind(qr, chunk) ==
    LET r == ReduceChunk(Reducer(qr.text, qr.tool, qr.events), chunk)
        q1 == [qr EXCEPT !.text = r.text, !.tool = r.tool, !.events = r.events,
                         !.steps = @ + 1, !.started = TRUE,
                         !.consumed = Append(@, chunk), !.agent = proc.agent]
    IN  IF r.exc = "" THEN q1
        ELSE OnException([q1 EXCEPT !.raised = r.exc], [cls |-> "Exception", desc |-> r.exc])

\* Lines 348-383: one step event reduced; an exception raised by the reduction
\* ends the loop in the except clause.
OnChunk(qr, chunk) ==
    LET r == ReduceChunk(Reducer(qr.text, qr.tool, qr.events), chunk)
        q1 == [qr EXCEPT !.text = r.text, !.tool = r.tool, !.events = r.events,
                         !.steps = @ + 1, !.started = TRUE,
                         !.consumed = Append(@, chunk)]
    IN  IF r.exc = "" THEN q1
        ELSE OnException([q1 EXCEPT !.raised = r.exc], [cls |-> "Exception", desc |-> r.exc])

\* Lines 385-393: the event sequence ended inside the deadline.
OnCompleted(qr, cp) ==
    LET final_text == Join(qr.text)
        final_tool == Join(qr.tool)
        h0 == get_conversation_history(cp, qr.thread_id)
        h1 == Append(h0, [role |-> "user", content |-> qr.query])
        h2 == IF final_text # <<>>
              THEN Append(h1, [role |-> "assistant", content |-> final_text]) ELSE h1
        h3 == IF final_tool # <<>>
              THEN Append(h2, [role |-> "assistant_tool", content |-> final_tool]) ELSE h2
    IN  [Goto(qr, "COMPLETED") EXCEPT !.history = h3, !.started = TRUE]

-----------------------------------------------------------------------------
(* SpecQuery: one /ask query against the step events of the agent.         *)

TextItem(v) == [type |-> "text", text |-> v]
ToolUseItem(v) == [type |-> "tool_use", partial_json |-> v]

\* Messages an agent step can carry.
PlainMessages ==
    { AI(Str(<<"4">>), <<>>, <<>>, <<>>, NoKwargs),
      AI(Str(<<"ok">>), <<Call(<<"add">>, "add(2,2)")>>, <<>>, <<>>, NoKwargs),
      AI(Str(<<>>), <<>>, <<>>, <<>>, NoKwargs),
      AI(Str(<<>>), <<Call(<<"add">>, "add(2,2)")>>, <<Call(<<"bad">>, "bad(")>>, <<>>, NoKwargs),
      AI(Str(<<>>), <<Call(<<>>, "anonymous")>>, <<Call(<<"bad">>, "bad(")>>, <<>>, NoKwargs),
      AI(Str(<<>>), <<>>, <<>>, <<Call(<<"add">>, "add(2")>>, NoKwargs),
      AI(Str(<<>>), <<>>, <<>>, <<>>, [tool_calls |-> <<Call(<<"old">>, "old()")>>]),
      AI(List(<<TextItem(<<"4">>), ToolUseItem(<<"{}">>)>>), <<>>, <<>>, <<>>, NoKwargs),
      AI(List(<<[type |-> "image"], TextItem(<<>>)>>), <<>>, <<>>, <<>>, NoKwargs),
      ToolMsg(<<"result">>),
      HumanMsg(<<"hi">>) }

\* Messages whose reduction raises.
MalformedMessages ==
    { AI(Str(<<>>), <<>>, <<>>, <<>>, [tool_calls |-> <<>>]),
      AI(List(<<TextItem(<<"4">>), [nondict |-> TRUE], TextItem(<<"5">>)>>),
         <<>>, <<>>, <<>>, NoKwargs),
      AI(List(<<[type |-> "text"]>>), <<>>, <<>>, <<>>, NoKwargs) }

Messages == PlainMessages \cup MalformedMessages

\* Step events: one message each, some pairs, and an event of the tools node.
Chunks ==
    { [node |-> "agent", messages |-> <<m>>] : m \in Messages }
    \cup { [node |-> "agent", messages |-> <<m, n>>] :
              m \in MalformedMessages \cup {ToolMsg(<<"result">>)},
              n \in {AI(Str(<<"4">>), <<>>, <<>>, <<>>, NoKwargs)} }
    \cup { [node |-> "agent", messages |-> <<>>],
           [node |-> "tools", messages |-> <<ToolMsg(<<"result">>)>>] }

\* Exceptions astream_graph can raise instead of yielding a step event.
AgentExceptions ==
    { [cls |-> "Exception", desc |-> "GraphRecursionError"],
      [cls |-> "TimeoutError", desc |-> "tool call timed out"] }

PriorThread == <<Stored(HumanMsg(<<"hi">>)), Stored(AI(Str(<<"hello">>), <<>>, <<>>, <<>>, NoKwargs))>>

Handle(id, tools, client) == [id |-> id, tools |-> tools, client |-> client]

InitQuery ==
    /\ config = [tools |-> <<>>, instructions |-> "", env_vars |-> <<>>,
                 selected_model |-> "gpt-4o", tool_versions |-> <<>>]
    /\ temp_tools = {}
    /\ mat = MatIdle(0)
    /\ \E timeout_seconds \in {"5", "120"} :
          q = [id \in {1} |-> NewQuery("t1", <<"What is 2+2?">>, timeout_seconds)]
    /\ checkpointer \in { [t \in {"t2"} |-> PriorThread],
                          [t \in ThreadIds |-> PriorThread] }
    /\ \E a \in {NoAgent, Handle(1, {}, 0), Handle(1, {"get_weather"}, 1)} :
          proc = [agent |-> a, serving |-> TRUE]

\* generate() starts: lines 328-339.  The generator of a response handed over
\* before the server stopped may start after shutdown() has run.
Ask(id) ==
    /\ q[id].state = "PENDING"
    /\ \A j \in DOMAIN q : j < id => q[j].state # "PENDING"
    /\ q' = [q EXCEPT ![id] = StartQuery(@, proc.agent, checkpointer)]
    /\ UNCHANGED <<config, temp_tools, mat, checkpointer, proc>>

\* the agent yields a step event and the loop body reduces it: lines 340-383
AgentStepOf(id, chunks) ==
    /\ q[id].state = "STREAMING"
    /\ q[id].steps < MaxSteps
    /\ \E chunk \in chunks :
          /\ checkpointer' = CheckpointAppend(checkpointer, q[id].thread_id,
                                              AgentStores(q[id], chunk.messages))
          /\ q' = [q EXCEPT ![id] = OnChunk(@, chunk)]
    /\ UNCHANGED <<config, temp_tools, mat, proc>>

AgentStep(id) == AgentStepOf(id, Chunks)

\* the agent raises while the loop awaits the next step event
AgentRaise(id) ==
    /\ q[id].state = "STREAMING"
    /\ \E exc \in AgentExceptions :
          q' = [q EXCEPT ![id] = OnException([@ EXCEPT !.raised = exc.desc, !.started = TRUE], exc)]
    /\ checkpointer' = CheckpointAppend(checkpointer, q[id].thread_id,
                                        AgentStores(q[id], <<>>))
    /\ UNCHANGED <<config, temp_tools, mat, proc>>

\* the step-event sequence ends: lines 385-393
AgentEnd(id) ==
    /\ q[id].state = "STREAMING"
    /\ checkpointer' = CheckpointAppend(checkpointer, q[id].thread_id,
                                        AgentStores(q[id], <<>>))
    /\ q' = [q EXCEPT ![id] = OnCompleted(@, checkpointer')]
    /\ UNCHANGED <<config, temp_tools, mat, proc>>

\* the deadline of asyncio.timeout(timeout_seconds) elapses while the loop
\* awaits the next step event: lines 339, 395-397
Deadline(id) ==
    /\ q[id].state = "STREAMING"
    /\ q' = [q EXCEPT ![id] = OnException([@ EXCEPT !.fired = TRUE],
                                          [cls |-> "TimeoutError", desc |-> ""])]
    /\ UNCHANGED <<config, temp_tools, mat, checkpointer, proc>>

\* the request is cancelled while generate() is suspended (the client went
\* away, the server stops): CancelledError and GeneratorExit are no Exception,
\* so neither except clause (lines 395-400) runs and nothing more is yielded.
Cancel(id) ==
    /\ q[id].state = "STREAMING"
    /\ q' = [q EXCEPT ![id] = Goto(@, "CANCELLED")]
    /\ UNCHANGED <<config, temp_tools, mat, checkpointer, proc>>

NextQuery ==
    \/ \E id \in DOMAIN q : Ask(id)
    \/ \E id \in DOMAIN q : AgentStep(id)
    \/ \E id \in DOMAIN q : AgentRaise(id)
    \/ \E id \in DOMAIN q : AgentEnd(id)
    \/ \E id \in DOMAIN q : Deadline(id)
    \/ \E id \in DOMAIN q : Cancel(id)

SpecQuery == InitQuery /\ [][NextQuery]_vars

\* The same query under the scheduling the runtime gives it: the handler runs
\* generate(), and the timer of asyncio.timeout fires while the loop still waits.
SpecQueryLive ==
    SpecQuery /\ \A id \in {1} : WF_vars(Ask(id)) /\ WF_vars(Deadline(id))

-----------------------------------------------------------------------------
(* Properties of one query.                                                *)

Terminal == {"COMPLETED", "TIMED_OUT", "FAILED"}

\* The states in which generate() has returned or been closed.
Ended == Terminal \cup {"NO_AGENT", "CANCELLED"}

ErrorIndexes(events) == { k \in 1..Len(events) : "error" \in DOMAIN events[k] }

Last(seq) == seq[Len(seq)]

\* C2: timeout law.  Once the deadline has elapsed before the step-event
\* sequence ended, the query is TIMED_OUT, its stream holds exactly one Error
\* event, the last one, whose message contains the configured timeout value,
\* and no further step event is consumed.
C2_TimeoutLaw ==
    /\ [](\A id \in DOMAIN q :
            q[id].fired =>
               /\ q[id].state = "TIMED_OUT"
               /\ Cardinality(ErrorIndexes(q[id].events)) = 1
               /\ "error" \in DOMAIN Last(q[id].events)
               /\ \E j \in 1..Len(Last(q[id].events).error) :
                     Last(q[id].events).error[j] = q[id].timeout_seconds)
    /\ [][\A id \in DOMAIN q :
            q[id].fired => /\ q'[id].steps = q[id].steps
                           /\ q'[id].events = q[id].events
                           /\ q'[id].state = q[id].state]_vars

\* C2 witness: the deadline elapsed after the query had consumed a step event
\* and emitted a delta, before the sequence ended.
C2_Witness ==
    \E id \in DOMAIN q :
        /\ q[id].fired
        /\ q[id].state = "TIMED_OUT"
        /\ q[id].steps >= 1
        /\ Len(q[id].events) >= 2

\* C3 (as claimed): when a query ends TIMED_OUT or FAILED, the history of its
\* thread is what it was when the query started.
C3_DiscardOnAbnormalEnd ==
    \A id \in DOMAIN q :
        q[id].state \in {"TIMED_OUT", "FAILED"} =>
            get_conversation_history(checkpointer, q[id].thread_id) = q[id].base

\* The entries the completion law expects the thread to gain.
CompletionEntries(qr) ==
    <<[role |-> "user", content |-> qr.query]>>
    \o (IF Join(qr.text) # <<>>
        THEN <<[role |-> "assistant", content |-> Join(qr.text)]>> ELSE <<>>)
    \o (IF Join(qr.tool) # <<>>
        THEN <<[role |-> "assistant_tool", content |-> Join(qr.tool)]>> ELSE <<>>)

\* C4 (as claimed): when a query ends COMPLETED, a later history get returns
\* the previous thread extended by the user message, the assistant message iff
\* the text is non-empty, and the assistant_tool message iff the trace is
\* non-empty, in that order.
C4_CompletionLaw ==
    \A id \in DOMAIN q :
        q[id].state = "COMPLETED" =>
            get_conversation_history(checkpointer, q[id].thread_id)
                = q[id].base \o CompletionEntries(q[id])

\* At most one Error event, and nothing after it.
ErrorIsLast(events) ==
    /\ Cardinality(ErrorIndexes(events)) <= 1
    /\ \A k \in ErrorIndexes(events) : k = Len(events)

\* C5 (as claimed): every query goes PENDING -> STREAMING -> one of COMPLETED,
\* TIMED_OUT, FAILED; at most one Error event, and it is the last event.
C5_StateMachine ==
    \A id \in DOMAIN q :
        /\ \/ q[id].trail = <<"PENDING">>
           \/ q[id].trail = <<"PENDING", "STREAMING">>
           \/ \E t \in Terminal : q[id].trail = <<"PENDING", "STREAMING", t>>
        /\ ErrorIsLast(q[id].events)

\* C5 (amended): a query that finds a handle installed goes PENDING ->
\* STREAMING -> exactly one of COMPLETED, TIMED_OUT, FAILED, unless its request
\* is cancelled while it streams, which ends it with no further event; a query
\* that finds no handle ends from PENDING with a single Error event and never
\* streams.  Every query reaches an end state, after which its output does not
\* change; at most one Error event is emitted and it is the last event.
C5_StateMachineAmended ==
    /\ [](\A id \in DOMAIN q :
            /\ \/ q[id].trail = <<"PENDING">>
               \/ q[id].trail = <<"PENDING", "STREAMING">> /\ proc.agent # NoAgent
               \/ /\ \E t \in Terminal \cup {"CANCELLED"} :
                        q[id].trail = <<"PENDING", "STREAMING", t>>
                  /\ proc.agent # NoAgent
               \/ /\ q[id].trail = <<"PENDING", "NO_AGENT">>
                  /\ proc.agent = NoAgent
                  /\ q[id].events = <<ErrorEvent(NotInitializedMessage)>>
            /\ q[id].state = Last(q[id].trail)
            /\ ErrorIsLast(q[id].events)
            /\ q[id].state \in {"TIMED_OUT", "FAILED"} =>
                  Cardinality(ErrorIndexes(q[id].events)) = 1
            /\ q[id].state \in {"COMPLETED", "PENDING", "STREAMING", "CANCELLED"} =>
                  ErrorIndexes(q[id].events) = {})
    /\ [][\A id \in DOMAIN q :
            q[id].state \in Ended => q'[id] = q[id]]_vars
    /\ \A id \in {1} : <>(q[id].state \in Ended)

\* C5 witness: a query that streamed deltas and then failed; its only Error
\* event is the last of several events.
C5_Witness ==
    \E id \in DOMAIN q :
        /\ q[id].trail = <<"PENDING", "STREAMING", "FAILED">>
        /\ Len(q[id].events) >= 3
        /\ ErrorIndexes(q[id].events) = {Len(q[id].events)}

\* C6 (as claimed): an exception other than the deadline's, raised while the
\* step events are reduced, ends the query FAILED with one Error event, the
\* last, that carries the exception's description.
C6_FailureLaw ==
    \A id \in DOMAIN q :
        (q[id].raised # "" /\ ~q[id].fired) =>
            /\ q[id].state = "FAILED"
            /\ Cardinality(ErrorIndexes(q[id].events)) = 1
            /\ "error" \in DOMAIN Last(q[id].events)
            /\ \E j \in 1..Len(Last(q[id].events).error) :
                  Last(q[id].events).error[j] = q[id].raised

-----------------------------------------------------------------------------
(* SpecProc: the process.  initialize_agent calls (login, settings apply),  *)
(* an /ask query and shutdown share the agent global on one event loop.     *)

MaxInits == 2      \* initialize_agent calls in SpecProc
MaxShutdowns == 2  \* runs of shutdown() in SpecProc

\* Locals of one initialize_agent call that outlive its suspension.
InitIdle == [pc |-> "idle", connections |-> <<>>, use_mcp |-> FALSE,
             client |-> 0, error |-> "", selected_model |-> <<>>, backend |-> "none"]

\* Model ids, as the characters of the str.
Gpt4o == <<"g", "p", "t", "-", "4", "o">>
Claude37Sonnet == <<"c", "l", "a", "u", "d", "e", "-", "3", "-", "7">>
GeminiPro == <<"g", "e", "m", "i", "n", "i", "-", "p", "r", "o">>
ModelIds == {Gpt4o, Claude37Sonnet, GeminiPro}

\* str.startswith
StartsWith(str, prefix) ==
    Len(str) >= Len(prefix) /\ SubSeq(str, 1, Len(prefix)) = prefix

\* models/agent.py 25-32: the backend class create_agent constructs.
SelectBackend(selected_model) ==
    IF StartsWith(selected_model, <<"c", "l", "a", "u", "d", "e">>)
    THEN "ChatAnthropic"
    ELSE "ChatOpenAI"

\* A mutant of the except clause: the agent global is reset on failure.
OnCreateErrorReset(p, i, mine, why) ==
    [p EXCEPT !.agent = NoAgent, !.tool_count = 0,
              !.inits[i] = [mine EXCEPT !.pc = "failed", !.error = why]]

\* models/agent.py 44-46 and app.py 247-249: except Exception: print; raise.
\* The exception leaves initialize_agent before lines 244-246.
OnCreateError(p, i, mine, why) ==
    [p EXCEPT !.inits[i] = [mine EXCEPT !.pc = "failed", !.error = why]]

\* Lines 166-219: the whole for loop.  fetch_tool_manifest, download_tool and
\* install_dependencies are synchronous (requests, subprocess.run), so the
\* loop runs without giving up the event loop.
RECURSIVE MatLoop(_, _, _)
MatLoop(m, staging, envs) ==
    IF m.pc # "loop" \/ m.i > Len(m.tools)
    THEN [m |-> m, staging |-> staging]
    ELSE LET r == MatIter(m, staging, envs[m.i])
         IN  MatLoop(r.m, r.staging, envs)

\* A mutant of the bypass test: the client is always created.
UseMcpAlways(mcp_config) == TRUE

\* Lines 236-241: if not mcp_config: use_mcp=False, else use_mcp=True.
UseMcp(mcp_config) == mcp_config # <<>>

\* client.get_tools(): the capabilities the opened connections expose, one per
\* connection; tools = [] when use_mcp is False (models/agent.py 12, 21).
Capabilities(use_mcp, connections) ==
    IF use_mcp THEN DOMAIN connections ELSE {}

\* models/agent.py 36-43: the handle create_agent returns; _client is None
\* (0 here) when use_mcp is False.
BuildHandle(i, use_mcp, connections) ==
    Handle(i, Capabilities(use_mcp, connections), IF use_mcp THEN i ELSE 0)

\* A mutant of the installation: the previous handle's client is closed first.
ReleaseOldOnInstall(old) == IF old.client = 0 THEN {} ELSE {old.client}

\* Line 246, agent = agent_instance: the clients closed when the previous
\* handle is replaced.  The assignment closes nothing.
ReleasedOnInstall(old) == {}

\* Lines 244-246: tool_count and the agent global.
Install(p, handle) ==
    [p EXCEPT !.tool_count = Cardinality(handle.tools),
              !.agent = handle,
              !.released = @ \cup ReleasedOnInstall(p.agent),
              !.clients = @ \ ReleasedOnInstall(p.agent)]

\* What the registry answers in SpecProc: the fetch fails, or a stdio tool
\* that downloads and installs.
ProcIterEnvs ==
    { e \in IterEnvs : /\ e.manifest.version = "1.0.0"
                       /\ e.manifest.transport = "stdio"
                       /\ e.download /\ e.install }

ProcToolLists ==
    { <<>>,
      <<[name |-> "weather", url |-> NoUrl]>>,
      <<[name |-> "weather", url |-> NoUrl], [name |-> "search", url |-> NoUrl]>> }

\* Step events in SpecProc.
ProcChunks ==
    { [node |-> "agent", messages |-> <<AI(Str(<<"4">>), <<>>, <<>>, <<>>, NoKwargs)>>] }

InitProc ==
    /\ \E tools \in ProcToolLists, selected_model \in ModelIds :
          config = [tools |-> tools, instructions |-> "",
                    env_vars |-> [weather |-> "KEY=1"],
                    selected_model |-> selected_model, tool_versions |-> <<>>]
    /\ temp_tools = {}
    /\ mat = MatIdle(0)
    /\ q = [id \in {1} |-> NewQuery("t1", <<"What is 2+2?">>, "120")]
    /\ checkpointer = [t \in {"t2"} |-> PriorThread]
    /\ proc = [agent |-> NoAgent, tool_count |-> 0, clients |-> {},
               released |-> {}, serving |-> TRUE, shutdowns |-> 0,
               inits |-> [i \in 1..MaxInits |-> InitIdle]]

\* initialize_agent runs from its call (login line 291, settings line 598) to
\* its first suspension: lines 140-241 and, in create_agent, up to the await
\* of client.__aenter__ (models/agent.py 19).  With use_mcp False nothing
\* suspends and the call runs to its end, lines 242-246.
InitBegin(i) ==
    /\ proc.serving
    /\ proc.inits[i].pc = "idle"
    /\ \A j \in 1..MaxInits : j < i => proc.inits[j].pc # "idle"
    /\ \E envs \in [1..Len(config.tools) -> ProcIterEnvs], model_ok \in BOOLEAN :
          LET r == MatLoop(MatStart([MatIdle(i) EXCEPT !.staged = temp_tools], config),
                           ClearStaging(temp_tools), envs)
              m == MatEnd(r.m)
              use_mcp == UseMcp(m.connections)
              mine == [InitIdle EXCEPT !.connections = m.connections,
                                       !.use_mcp = use_mcp,
                                       !.selected_model = m.cfg.selected_model]
          IN  /\ mat' = m
              /\ temp_tools' = r.staging
              /\ config' = save_user_config(config, m.cfg)
              /\ IF use_mcp
                 THEN proc' = [proc EXCEPT !.inits[i] = [mine EXCEPT !.pc = "connecting"]]
                 ELSE IF model_ok
                 THEN proc' = [Install(proc, BuildHandle(i, FALSE, m.connections))
                                  EXCEPT !.inits[i] =
                                     [mine EXCEPT !.pc = "done",
                                         !.backend = SelectBackend(mine.selected_model)]]
                 ELSE proc' = OnCreateError(proc, i, mine, "model")
    /\ UNCHANGED <<q, checkpointer>>

\* client.__aenter__ returns or raises; then models/agent.py 21-43 and
\* app.py 242-246 run without suspension.
InitConnected(i) ==
    /\ proc.serving
    /\ proc.inits[i].pc = "connecting"
    /\ \E opened \in BOOLEAN, model_ok \in BOOLEAN :
          LET mine == proc.inits[i]
          IN  IF ~opened
              THEN proc' = OnCreateError(proc, i, mine, "connect")
              ELSE LET p == [proc EXCEPT !.clients = @ \cup {i}]
                   IN  IF model_ok
                       THEN proc' = [Install(p, BuildHandle(i, TRUE, mine.connections))
                                        EXCEPT !.inits[i] =
                                           [mine EXCEPT !.pc = "done", !.client = i,
                                               !.backend = SelectBackend(mine.selected_model)]]
                       ELSE proc' = OnCreateError(p, i, [mine EXCEPT !.client = i], "model")
    /\ UNCHANGED <<config, temp_tools, mat, q, checkpointer>>

\* @app.after_serving (line 261): the lifespan shutdown is delivered once the
\* server has stopped accepting requests and every request task has finished
\* or been cancelled.
ServerDrained ==
    /\ \A id \in DOMAIN q : q[id].state # "STREAMING"
    /\ \A i \in 1..MaxInits : proc.inits[i].pc # "connecting"

\* A mutant of shutdown: the agent global is not cleared.
shutdown_keep_agent(p) ==
    LET closed == IF p.agent # NoAgent /\ p.agent.client # 0
                  THEN {p.agent.client} ELSE {}
    IN  [p EXCEPT !.released = @ \cup closed, !.clients = @ \ closed]

\* Lines 262-273: shutdown().  The client of the installed handle is closed
\* when there is a handle and its _client is set; agent = None in every case.
shutdown(p) ==
    LET closed == IF p.agent # NoAgent /\ p.agent.client # 0
                  THEN {p.agent.client} ELSE {}
    IN  [p EXCEPT !.agent = NoAgent,
                  !.released = @ \cup closed,
                  !.clients = @ \ closed]

\* shutdown() runs: as the after_serving hook, and once more after that.
Shutdown ==
    /\ proc.shutdowns < MaxShutdowns
    /\ ServerDrained
    /\ proc' = [shutdown(proc) EXCEPT !.serving = FALSE, !.shutdowns = @ + 1]
    /\ UNCHANGED <<config, temp_tools, mat, q, checkpointer>>

ProcStep(id) == AgentStepOf(id, ProcChunks)

NextProc ==
    \/ \E i \in 1..MaxInits : InitBegin(i)
    \/ \E i \in 1..MaxInits : InitConnected(i)
    \/ Shutdown
    \/ \E id \in DOMAIN q : Ask(id)
    \/ \E id \in DOMAIN q : ProcStep(id)
    \/ \E id \in DOMAIN q : AgentEnd(id)
    \/ \E id \in DOMAIN q : Deadline(id)
    \/ \E id \in DOMAIN q : Cancel(id)

SpecProc == InitProc /\ [][NextProc]_vars

-----------------------------------------------------------------------------
(* Claims about the process.                                               *)

\* The handles built so far whose tool connections are open.
LiveHandles ==
    { i \in 1..MaxInits : proc.inits[i].pc = "done" /\ i \in proc.clients }

\* C7 (as claimed): at every moment at most one agent handle with open tool
\* connections exists, and whenever initialize_agent installs a new handle the
\* connections of the previously installed handle have already been released.
C7_SingleLiveHandle ==
    /\ [](Cardinality(LiveHandles) <= 1)
    /\ [][(proc'.agent # proc.agent /\ proc'.agent # NoAgent) =>
             (proc.agent.client = 0 \/ proc.agent.client \in proc'.released)]_vars

InFlight(id) == q[id].state = "STREAMING"

\* C8: no query consumes a step event from a handle whose connections have
\* been released: a query never starts on a released handle, no handle is
\* released while a query is streaming on it, and every step event is consumed
\* from a handle whose client is still open (or that has none).
C8_NoQueryOnReleasedHandle ==
    /\ [](\A id \in DOMAIN q :
             InFlight(id) => q[id].agent.client \notin proc.released)
    /\ [][\A id \in DOMAIN q :
             q'[id].steps > q[id].steps =>
                /\ q[id].agent.client \notin proc.released
                /\ q[id].agent.client # 0 => q[id].agent.client \in proc.clients]_vars

\* C8 witness: shutdown has released the client of a handle from which a
\* query, now ended, consumed step events.
C8_Witness ==
    /\ ~proc.serving
    /\ \E id \in DOMAIN q :
          /\ q[id].steps > 0
          /\ q[id].agent.client # 0
          /\ q[id].agent.client \in proc.released

InitInProgress == \E i \in 1..MaxInits : proc.inits[i].pc = "connecting"

\* C9 (as claimed): no query begins streaming against the agent global while
\* an initialize_agent call is in progress.
C9_NoQueryDuringInit ==
    [][\A id \in DOMAIN q :
          (q[id].state = "PENDING" /\ q'[id].state = "STREAMING") =>
             ~InitInProgress]_vars

ToolFree(i) == proc.inits[i].pc # "idle" /\ proc.inits[i].connections = <<>>

\* C10: when the set of connection descriptors is empty (no tool reference,
\* or every reference failed), initialize_agent never waits for a tool
\* connection and opens none, nothing but the model backend can make it fail,
\* and the handle it installs has an empty capability set and no client, with
\* tool_count 0.
C10_ToolFreeMode ==
    /\ [](\A i \in 1..MaxInits :
             ToolFree(i) =>
                /\ proc.inits[i].pc \in {"done", "failed"}
                /\ ~proc.inits[i].use_mcp
                /\ proc.inits[i].client = 0
                /\ i \notin proc.clients \cup proc.released
                /\ proc.inits[i].pc = "failed" => proc.inits[i].error = "model")
    /\ [][\A i \in 1..MaxInits :
             (proc.inits[i].pc = "idle" /\ ToolFree(i)') =>
                /\ proc'.clients = proc.clients
                /\ proc'.inits[i].pc = "done" =>
                      /\ proc'.agent = Handle(i, {}, 0)
                      /\ proc'.tool_count = 0]_vars

\* C10 witness: a configuration with tool references, every one of which
\* failed, replaced a handle that had tools by a tool-free one.
C10_Witness ==
    /\ mat.tools # <<>>
    /\ mat.updated_tools = <<>>
    /\ mat.run > 1
    /\ proc.inits[1].pc = "done" /\ proc.inits[1].client = 1
    /\ proc.inits[mat.run].pc = "done"
    /\ proc.agent = Handle(mat.run, {}, 0)
    /\ proc.tool_count = 0

-----------------------------------------------------------------------------
(* Claims about the reducer's output.                                      *)

IsPrefix(a, b) == Len(a) <= Len(b) /\ SubSeq(b, 1, Len(a)) = a

TextPayloads(events) == SelectSeq(events, LAMBDA e : "text" \in DOMAIN e)
ToolPayloads(events) == SelectSeq(events, LAMBDA e : "tool" \in DOMAIN e)

\* C11: cumulative deltas.  Within one query the k-th TextDelta carries the
\* concatenation, in arrival order, of the first k text fragments received and
\* the k-th ToolDelta that of the first k tool fragments; so each payload has
\* the previous payload of its channel as a prefix, and both buffers only grow.
C11_CumulativeDeltas ==
    /\ [](\A id \in DOMAIN q :
             LET tp == TextPayloads(q[id].events)
                 lp == ToolPayloads(q[id].events)
             IN  /\ Len(tp) = Len(q[id].text)
                 /\ Len(lp) = Len(q[id].tool)
                 /\ \A k \in 1..Len(tp) : tp[k].text = Join(SubSeq(q[id].text, 1, k))
                 /\ \A k \in 1..Len(lp) : lp[k].tool = Join(SubSeq(q[id].tool, 1, k))
                 /\ \A k \in 2..Len(tp) : IsPrefix(tp[k-1].text, tp[k].text)
                 /\ \A k \in 2..Len(lp) : IsPrefix(lp[k-1].tool, lp[k].tool))
    /\ [][\A id \in DOMAIN q :
             /\ IsPrefix(q[id].text, q'[id].text)
             /\ IsPrefix(q[id].tool, q'[id].tool)
             /\ IsPrefix(q[id].events, q'[id].events)]_vars

\* C11 witness: a query that has sent two text deltas, the second longer than
\* the first, and two tool deltas.
C11_Witness ==
    \E id \in DOMAIN q :
        LET tp == TextPayloads(q[id].events)
            lp == ToolPayloads(q[id].events)
        IN  /\ Len(tp) >= 2 /\ Len(tp[2].text) > Len(tp[1].text)
            /\ Len(lp) >= 2 /\ Len(lp[2].tool) > Len(lp[1].tool)

\* An assistant message that takes neither content branch of lines 353-364:
\* its content is the empty string or an empty list.
NoTextContent(msg) ==
    /\ msg.cls = "ai"
    /\ \/ msg.content.kind = "str" /\ msg.content.val = <<>>
       \/ msg.content.kind = "list" /\ msg.content.items = <<>>

\* The kinds of tool-call data a message exposes, in the order of the claim:
\* tool-call metadata (a first call that has a name), invalid-tool-call
\* metadata, partial tool-call fragments, the legacy additional_kwargs field.
KindsOf(msg) ==
    (IF msg.tool_calls # <<>> /\ msg.tool_calls[1].name # <<>> THEN {1} ELSE {})
    \cup (IF msg.invalid_tool_calls # <<>> THEN {2} ELSE {})
    \cup (IF msg.tool_call_chunks # <<>> THEN {3} ELSE {})
    \cup (IF "tool_calls" \in DOMAIN msg.additional_kwargs THEN {4} ELSE {})

FirstKind(msg) == CHOOSE k \in KindsOf(msg) : \A j \in KindsOf(msg) : k <= j

\* The entries of the collection of kind k a fragment can be formatted from.
FirstEntry(msg, k) ==
    LET coll == IF k = 1 THEN msg.tool_calls
                ELSE IF k = 2 THEN msg.invalid_tool_calls
                ELSE IF k = 3 THEN msg.tool_call_chunks
                ELSE msg.additional_kwargs.tool_calls
    IN  IF coll = <<>> THEN {} ELSE {coll[1]}

\* A step that consumed a step event of the agent node holding the single
\* message msg.
ConsumedOne(id, msg) ==
    /\ q'[id].consumed = Append(q[id].consumed, [node |-> "agent", messages |-> <<msg>>])

\* C12 (as claimed): priority dispatch.  For an assistant message without
\* text content the first kind of tool-call data it exposes, in the order
\* tool-call metadata, invalid-tool-call metadata, partial fragments, legacy
\* field, appends exactly one tool fragment and emits one tool event, the
\* other kinds append nothing, and a message exposing none appends nothing and
\* emits no event.
C12_PriorityDispatch ==
    [][\A id \in DOMAIN q : \A msg \in Messages :
          (NoTextContent(msg) /\ ConsumedOne(id, msg)) =>
             /\ q'[id].text = q[id].text
             /\ IF KindsOf(msg) = {}
                THEN q'[id].tool = q[id].tool /\ q'[id].events = q[id].events
                ELSE \E c \in FirstEntry(msg, FirstKind(msg)) :
                        /\ q'[id].tool = Append(q[id].tool, ToolFragment(c.str))
                        /\ Len(q'[id].events) = Len(q[id].events) + 1
                        /\ Last(q'[id].events).tool = Join(q'[id].tool)]_vars

LabelOf(e) == IF "tool_label" \in DOMAIN e THEN e.tool_label ELSE "none"

\* The label the claim gives the tool events of a message.
ExpectedLabel(msg) ==
    IF msg.cls = "tool" THEN "Tool Response"
    ELSE IF NoTextContent(msg) /\ KindsOf(msg) # {} /\ FirstKind(msg) = 2
    THEN "Invalid Tool Call"
    ELSE "none"

\* C13: output frame shape.  Every event of a query carries exactly one of
\* the keys text, tool, error; tool_label appears only together with tool; a
\* tool event is labelled "Invalid Tool Call" exactly when it comes from the
\* invalid-tool-call branch, "Tool Response" exactly when it comes from a
\* tool-response message, and carries no label otherwise.
C13_FrameShape ==
    /\ [](\A id \in DOMAIN q : \A k \in 1..Len(q[id].events) :
             LET e == q[id].events[k]
             IN  /\ Cardinality(DOMAIN e \cap {"text", "tool", "error"}) = 1
                 /\ DOMAIN e \subseteq {"text", "tool", "error", "tool_label"}
                 /\ "tool_label" \in DOMAIN e => "tool" \in DOMAIN e)
    /\ [][\A id \in DOMAIN q : \A msg \in Messages :
             ConsumedOne(id, msg) =>
                \A k \in (Len(q[id].events) + 1)..Len(q'[id].events) :
                   "tool" \in DOMAIN q'[id].events[k] =>
                      LabelOf(q'[id].events[k]) = ExpectedLabel(msg)]_vars

\* C13 witness: one query has emitted a tool event of each label.
C13_Witness ==
    \E id \in DOMAIN q :
        /\ \E k \in 1..Len(q[id].events) :
              LabelOf(q[id].events[k]) = "Invalid Tool Call"
        /\ \E k \in 1..Len(q[id].events) :
              LabelOf(q[id].events[k]) = "Tool Response"

-----------------------------------------------------------------------------
(* Claims about materialization across initializations.                    *)

\* The loop has just finished the iteration for the reference at mat.i.
Iterated == mat.pc = "loop" /\ mat'.pc = "loop" /\ mat'.i = mat.i + 1

\* The reference and the registry's answers of that iteration.
IterRef == mat.tools[mat.i]
IterEnv == Last(mat'.envs)

\* SpecRerun: initialize_agent run twice in succession for a new user, the
\* configuration being changed by nothing but the runs themselves.
InitRerun ==
    /\ \E tools \in SeqUpTo(ToolRefs, MaxTools) :
          config = [tools |-> tools, instructions |-> "be brief",
                    env_vars |-> [weather |-> "KEY=1"],
                    selected_model |-> "gpt-4o", tool_versions |-> <<>>]
    /\ temp_tools = {}
    /\ mat = MatIdle(0)
    /\ q = QNone
    /\ checkpointer = <<>>
    /\ proc = ProcNone

\* initialize_agent is called, for the first or the second time: lines 140-165
RerunBegin ==
    /\ mat.pc \in {"idle", "create"}
    /\ mat.run \in {0, 1}
    /\ mat' = MatStart([mat EXCEPT !.run = @ + 1, !.staged = temp_tools], config)
    /\ temp_tools' = ClearStaging(temp_tools)
    /\ UNCHANGED <<config, q, checkpointer, proc>>

NextRerun == RerunBegin \/ MatIterate \/ MatFinish

SpecRerun == InitRerun /\ [][NextRerun]_vars

\* C14 (as claimed): idempotence of materialization.  In a run that follows
\* another run, a subprocess tool whose artifact was in the staging area when
\* the run began and whose recorded version equals the manifest's version is
\* not downloaded again.
C14_Idempotence ==
    [][(/\ Iterated
        /\ mat.run >= 2
        /\ IterEnv.fetch
        /\ IterEnv.manifest.transport = "stdio"
        /\ IterRef.name \in mat.staged
        /\ VersionGet(mat.cfg.tool_versions, IterRef.name) = IterEnv.manifest.version)
       => mat'.downloads = mat.downloads]_vars

Range(seq) == { seq[k] : k \in 1..Len(seq) }

\* The iteration went through download_tool (line 178), whether or not the
\* download and the install succeeded.
DownloadAttempted ==
    \/ mat'.downloads # mat.downloads
    \/ Last(mat'.log) = "download"

StdioFetched == Iterated /\ IterEnv.fetch /\ IterEnv.manifest.transport = "stdio"

\* C15 (as claimed): clear-before-check.  Every subprocess tool reference
\* whose manifest fetch succeeds takes the download branch and never the
\* reuse-cached branch, whatever the cached version is.
C15_ClearBeforeCheck ==
    [][StdioFetched => DownloadAttempted]_vars

\* C15 (amended): during the loop the staging area holds only artifacts the
\* running initialization downloaded itself, never one of an earlier
\* initialization; a subprocess tool reference whose manifest fetch succeeds
\* takes the download branch unless an earlier reference of the same name in
\* the same initialization has downloaded the artifact and the version
\* recorded for the name equals the manifest's, and only then takes the
\* reuse-cached branch.
C15_ClearBeforeCheckAmended ==
    /\ [](mat.pc = "loop" => temp_tools \subseteq Range(mat.downloads))
    /\ [][StdioFetched =>
             (~DownloadAttempted <=>
                /\ \E k \in 1..(mat.i - 1) : mat.tools[k].name = IterRef.name
                /\ IterRef.name \in Range(mat.downloads)
                /\ VersionGet(mat.tool_versions, IterRef.name) = IterEnv.manifest.version)]_vars

\* C15 witness: in a run that follows another, the version recorded for a
\* subprocess tool equals the manifest's, and the artifact is downloaded all
\* the same.
C15_Witness ==
    /\ mat.pc = "loop"
    /\ mat.run >= 2
    /\ Len(mat.envs) = 1
    /\ mat.envs[1].fetch
    /\ mat.envs[1].manifest.transport = "stdio"
    /\ VersionGet(mat.cfg.tool_versions, mat.tools[1].name) = mat.envs[1].manifest.version
    /\ mat.downloads = <<mat.tools[1].name>>
    /\ mat.log = <<"appended">>

\* C16: version ledger persistence.  The persisted configuration changes
\* only when the loop has finished, in one write that carries the loop's
\* tool_versions table with the rest of the configuration, so stopping at any
\* earlier point leaves the persisted table as it was; and the loop advances
\* the version of a name on a subprocess manifest only in an iteration whose
\* download and dependency install both succeeded.
C16_LedgerPersistence ==
    /\ [][config' # config =>
             /\ mat.pc = "loop" /\ mat.i > Len(mat.tools) /\ mat'.pc = "create"
             /\ config' = [mat.cfg EXCEPT !.tool_versions = mat.tool_versions]]_vars
    /\ [][(mat.pc = "loop" /\ mat'.pc = "create") =>
             config'.tool_versions = mat.tool_versions]_vars
    /\ [][(mat.pc = "loop" /\ mat'.pc = "loop") =>
             \A n \in ToolNames :
                VersionGet(mat'.tool_versions, n) # VersionGet(mat.tool_versions, n) =>
                   /\ Iterated /\ n = IterRef.name /\ IterEnv.fetch
                   /\ VersionGet(mat'.tool_versions, n) = IterEnv.manifest.version
                   /\ IterEnv.manifest.transport = "stdio" =>
                         /\ IterEnv.download /\ IterEnv.install
                         /\ mat'.downloads = Append(mat.downloads, n)
                         /\ n \in temp_tools'
                         /\ Last(mat'.log) = "appended"]_vars

\* C16 witness: a finished run persisted the new version of a subprocess tool
\* it downloaded and installed, and kept the old version of another whose
\* dependency install failed on a newer manifest.
C16_Witness ==
    /\ mat.pc = "create"
    /\ config.tool_versions = mat.tool_versions
    /\ \E j, k \in 1..Len(mat.envs) :
          /\ mat.log[j] = "appended" /\ mat.envs[j].manifest.transport = "stdio"
          /\ mat.tools[j].name \in Range(mat.downloads)
          /\ config.tool_versions[mat.tools[j].name] = mat.envs[j].manifest.version
          /\ mat.log[k] = "install"
          /\ mat.tools[k].name # mat.tools[j].name
          /\ VersionGet(config.tool_versions, mat.tools[k].name) # mat.envs[k].manifest.version

-----------------------------------------------------------------------------
(* Claims about the agent build.                                           *)

\* The model-id families the application knows (OUTPUT_TOKEN_INFO, line 72).
KnownFamily(selected_model) ==
    \/ StartsWith(selected_model, <<"c", "l", "a", "u", "d", "e">>)
    \/ StartsWith(selected_model, <<"g", "p", "t">>)

\* C17 (as claimed): model selection fails fast.  For a model id of no known
\* backend family create_agent fails and constructs no backend.
C17_ModelSelectionFailsFast ==
    \A i \in 1..MaxInits :
        (proc.inits[i].pc # "idle" /\ ~KnownFamily(proc.inits[i].selected_model)) =>
            /\ proc.inits[i].pc # "done"
            /\ proc.inits[i].backend = "none"

\* C18: fail-fast agent build.  When create_agent raises during
\* initialize_agent (the tool connection cannot be established or the backend
\* cannot be built) the call ends with that error and is not tried again, it
\* installs no handle, and the agent global and tool_count keep the values
\* they had before the call.
C18_FailFastBuild ==
    /\ [][\A i \in 1..MaxInits :
             (proc.inits[i].pc # "failed" /\ proc'.inits[i].pc = "failed") =>
                /\ proc'.agent = proc.agent
                /\ proc'.tool_count = proc.tool_count
                /\ proc'.inits[i].error \in {"connect", "model"}]_vars
    /\ [][\A i \in 1..MaxInits :
             proc.inits[i].pc = "failed" => proc'.inits[i] = proc.inits[i]]_vars
    /\ [](\A i \in 1..MaxInits :
             proc.inits[i].pc = "failed" => proc.agent.id # i)

\* C18 witness: the second initialization failed to connect, and the handle
\* and tool_count of the first are still installed.
C18_Witness ==
    /\ proc.inits[1].pc = "done"
    /\ proc.inits[2].pc = "failed" /\ proc.inits[2].error = "connect"
    /\ proc.agent = Handle(1, DOMAIN proc.inits[1].connections, 1)
    /\ proc.tool_count = Cardinality(proc.agent.tools)
    /\ proc.tool_count > 0

-----------------------------------------------------------------------------
(* Claims about remote tools.                                              *)

SseFetched(k) == mat.envs[k].fetch /\ mat.envs[k].manifest.transport = "sse"

\* The URL the claim gives the descriptor of reference k.
RemoteUrl(k) ==
    IF mat.tools[k].url # NoUrl THEN mat.tools[k].url ELSE mat.envs[k].manifest.url

\* C19: remote tools.  Every remote-transport reference whose manifest fetch
\* succeeds yields a descriptor of transport sse holding its URL, the
\* reference's own if it has one and the manifest's otherwise; its iteration
\* downloads nothing and leaves the staging area alone, on the branch taken
\* when the cached version differs and on the one taken when it is equal; and
\* after the loop the connections map holds that descriptor under the tool's
\* name unless a later reference of the same name replaced it.
C19_RemoteTools ==
    /\ [](\A k \in 1..Len(mat.log) :
             SseFetched(k) =>
                /\ mat.log[k] = "appended"
                /\ \E p \in 1..Len(mat.origin) :
                      /\ mat.origin[p] = k
                      /\ mat.updated_tools[p] =
                            [name |-> mat.tools[k].name, transport |-> "sse",
                             url |-> RemoteUrl(k)]
                /\ (mat.pc = "create" /\ \A j \in (k + 1)..Len(mat.log) :
                                            mat.tools[j].name = mat.tools[k].name
                                               => mat.log[j] # "appended")
                      => mat.connections[mat.tools[k].name] =
                            [transport |-> "sse", url |-> RemoteUrl(k)])
    /\ [][(Iterated /\ IterEnv.fetch /\ IterEnv.manifest.transport = "sse") =>
             /\ mat'.downloads = mat.downloads
             /\ temp_tools' = temp_tools]_vars

\* C19 witness: a finished run in which a remote reference with a URL of its
\* own was materialized on the branch of an equal cached version, the file of
\* an earlier subprocess reference of the same name being staged, and its
\* descriptor is the one in the connections map.
C19_Witness ==
    /\ mat.pc = "create"
    /\ Len(mat.tools) = 2
    /\ mat.tools[1].name = mat.tools[2].name
    /\ mat.tools[2].url # NoUrl
    /\ mat.envs[1].manifest.transport = "stdio" /\ mat.log[1] = "appended"
    /\ mat.downloads = <<mat.tools[1].name>>
    /\ SseFetched(2)
    /\ mat.envs[2].manifest.version = mat.envs[1].manifest.version
    /\ mat.connections[mat.tools[2].name] =
          [transport |-> "sse", url |-> mat.tools[2].url]

-----------------------------------------------------------------------------
(* SpecSettings: the tool handlers of /settings and fetch_tool_manifest.   *)

\* What requests.get meets: no answer (a RequestException), or a response
\* with a status code and a body that is JSON or not.
Statuses == {200, 204, 404, 500}
Bodies == { [json |-> m] : m \in Manifests } \cup { [malformed |-> TRUE] }
Responses ==
    { [network |-> "fails", status |-> 200, body |-> [malformed |-> TRUE]] }
    \cup [network : {"ok"}, status : Statuses, body : Bodies]

Raised(why) == [returned |-> FALSE, error |-> why]
Returned(value) == [returned |-> TRUE, value |-> value]

\* A mutant of the status test: every status raise_for_status accepts passes.
fetch_tool_manifest_any_status(tool_name, resp) ==
    IF resp.network = "fails" THEN Raised("Failed to fetch manifest")
    ELSE IF "json" \notin DOMAIN resp.body THEN Raised("JSONDecodeError")
    ELSE IF resp.status >= 400 THEN Raised("Failed to fetch manifest")
    ELSE Returned(resp.body.json)

\* Lines 101-114.  requests.get raises a RequestException when the network
\* fails (wrapped at 113-114); response.json() at line 106 raises on a body
\* that is not JSON, whatever the status; raise_for_status raises HTTPError
\* for 4xx and 5xx (wrapped); any other status but 200 raises at line 112.
fetch_tool_manifest(tool_name, resp) ==
    IF resp.network = "fails" THEN Raised("Failed to fetch manifest")
    ELSE IF "json" \notin DOMAIN resp.body THEN Raised("JSONDecodeError")
    ELSE IF resp.status >= 400 THEN Raised("Failed to fetch manifest")
    ELSE IF resp.status = 200 THEN Returned(resp.body.json)
    ELSE Raised("Unexpected status code")

\* The handler's record of its last call: the form, the registry's answer and
\* what fetch_tool_manifest did.
NoCall == [handler |-> "none"]

InitSettings ==
    /\ config = [tools |-> <<>>, instructions |-> "",
                 env_vars |-> [weather |-> "KEY=1"],
                 selected_model |-> "gpt-4o", tool_versions |-> <<>>]
    /\ temp_tools = {}
    /\ mat = NoCall
    /\ q = QNone
    /\ checkpointer = <<>>
    /\ proc = ProcNone

\* Lines 506-544, 'add_tool' in form_data, for a manifest that asks for no
\* environment variable: the manifest is fetched to validate the tool; the
\* reference is appended and the configuration saved when the fetch returns,
\* and the error is rendered when it raises.
AddTool ==
    /\ Len(config.tools) < MaxTools
    /\ \E tool_name \in ToolNames, resp \in Responses :
          LET res == fetch_tool_manifest(tool_name, resp)
              new_tool == [name |-> tool_name, url |-> NoUrl]
          IN  /\ mat' = [handler |-> "add_tool", tool_name |-> tool_name,
                         response |-> resp, result |-> res]
              /\ config' = IF res.returned
                           THEN save_user_config(config,
                                    [config EXCEPT !.tools = Append(@, new_tool)])
                           ELSE config
    /\ UNCHANGED <<temp_tools, q, checkpointer, proc>>

\* Lines 569-585, 'remove_tool' in form_data: a name that is not in the list
\* raises ValueError, which is rendered; otherwise every reference of that name
\* and the name's environment variables are removed and the result saved.
RemoveTool ==
    \E tool_name \in ToolNames :
        LET found == \E k \in 1..Len(config.tools) : config.tools[k].name = tool_name
            kept == SelectSeq(config.tools, LAMBDA t : t.name # tool_name)
            env_vars == [n \in DOMAIN config.env_vars \ {tool_name} |-> config.env_vars[n]]
        IN  /\ mat' = [handler |-> "remove_tool", tool_name |-> tool_name,
                       result |-> IF found THEN Returned("removed") ELSE Raised("ValueError")]
            /\ config' = IF found
                         THEN save_user_config(config,
                                  [config EXCEPT !.tools = kept, !.env_vars = env_vars])
                         ELSE config
            /\ UNCHANGED <<temp_tools, q, checkpointer, proc>>

NextSettings == AddTool \/ RemoveTool

SpecSettings == InitSettings /\ [][NextSettings]_vars

\* C20: fetch_tool_manifest returns a manifest only when the registry answers
\* with status 200 and a JSON body, and then returns that body; on a network
\* failure, on any other status and on a body that is not JSON it raises and
\* returns nothing.
C20_FetchManifest ==
    mat.handler = "add_tool" =>
        /\ mat.result.returned <=>
              /\ mat.response.network = "ok"
              /\ mat.response.status = 200
              /\ "json" \in DOMAIN mat.response.body
        /\ mat.result.returned => mat.result.value = mat.response.body.json
        /\ ~mat.result.returned =>
              /\ "value" \notin DOMAIN mat.result
              /\ mat.result.error # ""

\* C20 witness: after a call that returned the manifest of a 200 response and
\* added the tool, a call answered with status 204 and a JSON body raised.
C20_Witness ==
    /\ mat.handler = "add_tool"
    /\ mat.response.network = "ok" /\ mat.response.status = 204
    /\ "json" \in DOMAIN mat.response.body
    /\ ~mat.result.returned
    /\ Len(config.tools) = 1

-----------------------------------------------------------------------------
(* SpecDownload: download_tool against the staging directory.  Here the     *)
(* staging area is kept in full: the tool directories that exist and the    *)
(* content of the artifact file in each.                                    *)

Contents == {"bytes-a", "bytes-b"}

\* hashlib.sha256(response.content).hexdigest()
Sha256(content) == IF content = "bytes-a" THEN "digest-a" ELSE "digest-b"

\* What requests.get meets in download_tool.
DownloadResponses ==
    { [network |-> "fails", status |-> 200, content |-> "bytes-a"] }
    \cup [network : {"ok"}, status : Statuses, content : Contents]

\* os.makedirs(temp_dir, exist_ok=True), line 120.
MakeDirs(staging, tool_name) == [staging EXCEPT !.dirs = @ \cup {tool_name}]

\* open(..., "wb").write(response.content), lines 126-127.
WriteFile(staging, tool_name, content) ==
    [staging EXCEPT !.files = [n \in DOMAIN @ \cup {tool_name} |->
                                  IF n = tool_name THEN content ELSE @[n]]]

\* A mutant of the status test: every status raise_for_status accepts is
\* written.
download_tool_any_status(staging, tool_name, resp) ==
    LET st == MakeDirs(staging, tool_name)
    IN  IF resp.network = "fails" \/ resp.status >= 400
        THEN [result |-> Raised("Failed to download"), staging |-> st]
        ELSE [result |-> Returned(Sha256(resp.content)),
              staging |-> WriteFile(st, tool_name, resp.content)]

\* Lines 116-132.  The directory is made before the request; a
\* RequestException (network failure, or HTTPError from raise_for_status) is
\* wrapped at 131-132; any other status but 200 raises at line 130.
download_tool(staging, tool_name, resp) ==
    LET st == MakeDirs(staging, tool_name)
    IN  IF resp.network = "fails" \/ resp.status >= 400
        THEN [result |-> Raised("Failed to download"), staging |-> st]
        ELSE IF resp.status = 200
        THEN [result |-> Returned(Sha256(resp.content)),
              staging |-> WriteFile(st, tool_name, resp.content)]
        ELSE [result |-> Raised("Unexpected status code"), staging |-> st]

InitDownload ==
    /\ config = [tools |-> <<>>, instructions |-> "",
                 env_vars |-> [weather |-> "KEY=1"],
                 selected_model |-> "gpt-4o", tool_versions |-> <<>>]
    /\ temp_tools = [dirs |-> {}, files |-> <<>>]
    /\ mat = NoCall
    /\ q = QNone
    /\ checkpointer = <<>>
    /\ proc = ProcNone

\* One call of download_tool (line 178).
DownloadTool ==
    /\ \E tool_name \in ToolNames, resp \in DownloadResponses :
          LET r == download_tool(temp_tools, tool_name, resp)
          IN  /\ temp_tools' = r.staging
              /\ mat' = [handler |-> "download_tool", tool_name |-> tool_name,
                         response |-> resp, result |-> r.result]
    /\ UNCHANGED <<config, q, checkpointer, proc>>

\* shutil.rmtree(temp_base_dir); os.makedirs(temp_base_dir): lines 156-160.
ClearDownloads ==
    /\ temp_tools.dirs # {}
    /\ temp_tools' = [dirs |-> {}, files |-> <<>>]
    /\ mat' = [handler |-> "clear"]
    /\ UNCHANGED <<config, q, checkpointer, proc>>

NextDownload == DownloadTool \/ ClearDownloads

SpecDownload == InitDownload /\ [][NextDownload]_vars

\* C21: download_tool writes the artifact into the tool's staging directory
\* and returns the hash of its bytes only when the registry answers with
\* status 200; on a network failure and on any other status it raises and
\* writes no artifact file, the tool's directory having been created all the
\* same.
C21_DownloadTool ==
    /\ [](mat.handler = "download_tool" =>
             /\ mat.result.returned <=>
                   (mat.response.network = "ok" /\ mat.response.status = 200)
             /\ mat.tool_name \in temp_tools.dirs
             /\ mat.result.returned =>
                   /\ mat.result.value = Sha256(mat.response.content)
                   /\ mat.tool_name \in DOMAIN temp_tools.files
                   /\ temp_tools.files[mat.tool_name] = mat.response.content
             /\ ~mat.result.returned => "value" \notin DOMAIN mat.result)
    /\ [][(mat'.handler = "download_tool" /\ ~mat'.result.returned) =>
             temp_tools'.files = temp_tools.files]_vars
    /\ [][mat'.handler = "download_tool" =>
             \A n \in DOMAIN temp_tools.files \ {mat'.tool_name} :
                /\ n \in DOMAIN temp_tools'.files
                /\ temp_tools'.files[n] = temp_tools.files[n]]_vars

\* C21 witness: a download answered with status 204 raised; it created the
\* tool's directory and wrote no file, next to the artifact of another tool
\* written by an earlier call.
C21_Witness ==
    /\ mat.handler = "download_tool"
    /\ mat.response.network = "ok" /\ mat.response.status = 204
    /\ ~mat.result.returned
    /\ mat.tool_name \in temp_tools.dirs
    /\ mat.tool_name \notin DOMAIN temp_tools.files
    /\ DOMAIN temp_tools.files # {}

-----------------------------------------------------------------------------
(* SpecThreads: two queries of two sessions, each on its own thread, driven *)
(* on the one installed handle while the pages of the sessions are loaded   *)
(* and a session is reset.                                                  *)

\* session['thread_id'] = random_uuid(): an id no thread has yet.
FreshThread == "t3"

SessionThreads == ThreadIds \cup {FreshThread}

\* Step events of the agent in SpecThreads: a text message, a message whose
\* content list holds a plain string, a message whose content list holds an
\* item without "type", and an event of the tools node.
ThreadChunks ==
    { [node |-> "agent", messages |-> <<AI(Str(<<"4">>), <<>>, <<>>, <<>>, NoKwargs)>>],
      [node |-> "agent",
       messages |-> <<AI(List(<<TextItem(<<"4">>), [nondict |-> TRUE]>>),
                         <<>>, <<>>, <<>>, NoKwargs)>>],
      [node |-> "agent",
       messages |-> <<AI(List(<<[image_url |-> "u"], TextItem(<<"5">>)>>),
                         <<>>, <<>>, <<>>, NoKwargs)>>],
      [node |-> "tools", messages |-> <<ToolMsg(<<"result">>)>>] }

\* The messages the checkpoint holds for a thread.
Thread(cp, thread_id) == IF thread_id \in DOMAIN cp THEN cp[thread_id] ELSE <<>>

InitThreads ==
    /\ config = [tools |-> <<>>, instructions |-> "", env_vars |-> <<>>,
                 selected_model |-> "gpt-4o", tool_versions |-> <<>>]
    /\ temp_tools = {}
    /\ mat = [handler |-> "none", thread_id |-> "t1", history |-> <<>>]
    /\ q = [id \in {1, 2} |->
               IF id = 1 THEN NewQuery("t1", <<"What is 2+2?">>, "120")
               ELSE NewQuery("t2", <<"And 3+3?">>, "5")]
    /\ checkpointer = [t \in {"t2"} |-> PriorThread]
    /\ proc = [agent |-> Handle(1, {}, 0), serving |-> TRUE]

\* index(): lines 304-313.
Index ==
    /\ \E thread_id \in SessionThreads :
          mat' = [handler |-> "index", thread_id |-> thread_id,
                  history |-> get_conversation_history(checkpointer, thread_id)]
    /\ UNCHANGED <<config, temp_tools, q, checkpointer, proc>>

\* reset(): lines 604-608.
Reset ==
    /\ mat.thread_id # FreshThread
    /\ mat' = [handler |-> "reset", thread_id |-> FreshThread, history |-> <<>>]
    /\ UNCHANGED <<config, temp_tools, q, checkpointer, proc>>

ThreadStep(id) == AgentStepOf(id, ThreadChunks)

NextThreads ==
    \/ Index
    \/ Reset
    \/ \E id \in DOMAIN q : Ask(id)
    \/ \E id \in DOMAIN q : ThreadStep(id)
    \/ \E id \in DOMAIN q : AgentRaise(id)
    \/ \E id \in DOMAIN q : AgentEnd(id)
    \/ \E id \in DOMAIN q : Deadline(id)
    \/ \E id \in DOMAIN q : Cancel(id)

SpecThreads == InitThreads /\ [][NextThreads]_vars

\* index() has just read the history of a thread.
IndexRead == mat'.handler = "index" /\ UNCHANGED checkpointer

\* C22 (as claimed): get_conversation_history never fails; it returns the
\* empty sequence for a thread without checkpoint, and for a thread with a
\* checkpoint one {role, content} entry per stored message, in order, with
\* role user for a human message and assistant for every other.
C22_HistoryPerMessage ==
    [][IndexRead =>
          LET stored == Thread(checkpointer, mat'.thread_id)
              history == mat'.history
          IN  /\ mat'.thread_id \notin DOMAIN checkpointer => history = <<>>
              /\ Len(history) = Len(stored)
              /\ \A k \in 1..Len(history) :
                    /\ DOMAIN history[k] = {"role", "content"}
                    /\ history[k].role =
                          (IF stored[k].type = "human" THEN "user" ELSE "assistant")]_vars

\* C23 (as claimed): the checkpoint of a thread only grows at its end;
\* index and reset change no checkpoint, and a query that ended TIMED_OUT or
\* FAILED has left its thread with the messages it had when the query
\* started.
C23_AppendOnly ==
    /\ [][\A t \in SessionThreads :
             IsPrefix(Thread(checkpointer, t), Thread(checkpointer', t))]_vars
    /\ [][mat' # mat => checkpointer' = checkpointer]_vars
    /\ [](\A id \in DOMAIN q :
             q[id].state \in {"TIMED_OUT", "FAILED"} =>
                Len(Thread(checkpointer, q[id].thread_id)) = Len(q[id].base))

RECURSIVE Fold(_, _)
\* The loop of generate() run over a sequence of step events.
Fold(qr, chunks) ==
    IF chunks = <<>> \/ qr.state # "STREAMING" THEN qr
    ELSE Fold(OnChunk(qr, Head(chunks)), Tail(chunks))

\* The query run alone: on the handle it bound, from the history its thread
\* had at its start, over the step events its own agent run yielded.
Alone(qr) ==
    Fold([Goto(NewQuery(qr.thread_id, qr.query, qr.timeout_seconds), "STREAMING")
             EXCEPT !.agent = qr.agent, !.base = qr.base],
         qr.consumed)

RECURSIVE StoredByRun(_)
\* The messages the agent run of a query stores for step events.
StoredByRun(chunks) ==
    IF chunks = <<>> THEN <<>>
    ELSE StoredAll(Head(chunks).messages) \o StoredByRun(Tail(chunks))

\* C25: two queries on different threads that interleave are isolated: the
\* accumulators and events of each are those of the query run alone over its
\* own step events (with at most the one error event that ended it), and the
\* thread of each holds what it held at the start of the query, then the
\* query's own message and the messages of its own step events, nothing of
\* the other query.
C25_ThreadIsolation ==
    \A id \in DOMAIN q :
        q[id].state \notin {"PENDING", "NO_AGENT"} =>
            LET qr == q[id]
                alone == Alone(qr)
                stored == Thread(checkpointer, qr.thread_id)
                own == (IF qr.started THEN <<Stored(HumanMsg(qr.query))>> ELSE <<>>)
                       \o StoredByRun(qr.consumed)
            IN  /\ qr.text = alone.text
                /\ qr.tool = alone.tool
                /\ IsPrefix(alone.events, qr.events)
                /\ Len(qr.events) <= Len(alone.events) + 1
                /\ Len(qr.events) = Len(alone.events) + 1 =>
                      /\ "error" \in DOMAIN Last(qr.events)
                      /\ qr.state \in {"TIMED_OUT", "FAILED"}
                /\ Len(stored) = Len(qr.base) + Len(own)
                /\ SubSeq(stored, Len(qr.base) + 1, Len(stored)) = own

\* C25 witness: both queries have consumed step events, different ones, while
\* the other was streaming, and one of them has ended.
C25_Witness ==
    /\ q[1].state = "COMPLETED" /\ q[2].state = "STREAMING"
    /\ q[1].thread_id # q[2].thread_id
    /\ Len(q[1].consumed) > 0 /\ Len(q[2].consumed) > 0
    /\ q[1].consumed # q[2].consumed
    /\ q[1].events # q[2].events

-----------------------------------------------------------------------------
(* Scheduling of initialize_agent against the other handlers (SpecProc).    *)

\* C24 (as claimed): the registry fetch is a suspension point: the step in
\* which initialize_agent begins with a tool reference to materialize ends
\* at its first manifest fetch, the loop standing at that reference, so that
\* the other handlers run while the fetch is under way.
C24_FetchSuspends ==
    [][\A i \in 1..MaxInits :
          (/\ proc.inits[i].pc = "idle"
           /\ proc.inits'[i].pc # "idle"
           /\ config.tools # <<>>)
          => (mat'.pc = "loop" /\ mat'.i = 1 /\ mat'.log = <<>>)]_vars

\* shutdown() has just run.
ShutdownRan == proc'.shutdowns = proc.shutdowns + 1

\* C26: release is idempotent: a shutdown with no handle installed, with a
\* tool-free handle installed, or after an earlier shutdown closes no
\* connection, and after every shutdown the process-wide handle is absent.
C26_ReleaseIdempotent ==
    [][ShutdownRan =>
          /\ proc'.agent = NoAgent
          /\ (proc.agent = NoAgent \/ proc.agent.client = 0 \/ proc.shutdowns > 0) =>
                (proc'.clients = proc.clients /\ proc'.released = proc.released)
          /\ proc.shutdowns > 0 => shutdown(proc) = proc]_vars

\* C26 witness: shutdown has run twice; the first run closed the client of
\* the installed handle.
C26_Witness ==
    /\ proc.shutdowns = 2
    /\ proc.released # {}
    /\ proc.agent = NoAgent

\* C26 witness of the tool-free case: shutdown ran on a handle without
\* client.
C26_WitnessToolFree ==
    /\ proc.shutdowns = 1
    /\ proc.released = {}
    /\ \E i \in 1..MaxInits : proc.inits[i].pc = "done" /\ ~proc.inits[i].use_mcp

\* C27: a query that starts while no handle is installed emits exactly one
\* error event, saying that the agent has not been initialized, and ends
\* there: it drives no agent, consumes no step event, reads no history and
\* changes no checkpoint.
C27_NotInitialized ==
    /\ [](\A id \in DOMAIN q :
             q[id].state = "NO_AGENT" =>
                /\ q[id].events = <<ErrorEvent(NotInitializedMessage)>>
                /\ q[id].agent = NoAgent
                /\ q[id].steps = 0 /\ q[id].consumed = <<>> /\ ~q[id].started
                /\ q[id].base = <<>> /\ q[id].history = <<>>)
    /\ [][\A id \in DOMAIN q :
             /\ (q[id].state = "PENDING" /\ q'[id] # q[id] /\ proc.agent = NoAgent) =>
                   (q'[id].state = "NO_AGENT" /\ checkpointer' = checkpointer)
             /\ (q[id].state = "PENDING" /\ q'[id].state = "NO_AGENT") =>
                   proc.agent = NoAgent
             /\ q[id].state = "NO_AGENT" => q'[id] = q[id]]_vars

\* C27 witness: the query started after shutdown had cleared a handle that an
\* initialization had installed.
C27_Witness ==
    /\ proc.shutdowns > 0
    /\ \E i \in 1..MaxInits : proc.inits[i].pc = "done"
    /\ q[1].state = "NO_AGENT"

\* C27 witness of the second case: the query started after the first
\* initialization had failed, the server still serving.
C27_WitnessFailedInit ==
    /\ proc.serving
    /\ proc.inits[1].pc = "failed"
    /\ \A i \in 1..MaxInits : proc.inits[i].pc # "done"
    /\ q[1].state = "NO_AGENT"

\* C27 witness of the first case: the query started before any initialization.
C27_WitnessBeforeInit ==
    /\ proc.serving
    /\ \A i \in 1..MaxInits : proc.inits[i].pc = "idle"
    /\ q[1].state = "NO_AGENT"

-----------------------------------------------------------------------------
(* The connections map (SpecMat).                                           *)

\* Reference k was fetched with a transport that yields a descriptor.
Connectable(k) ==
    /\ mat.envs[k].fetch
    /\ mat.envs[k].manifest.transport \in {"stdio", "sse"}

\* The connection values of reference k, from its own manifest.
OwnConnection(k) ==
    LET ref == mat.tools[k]
        man == mat.envs[k].manifest
    IN  IF man.transport = "stdio"
        THEN [transport |-> "stdio", command |-> "python",
              args |-> StdioConfig(ref.name, man, mat.cfg.env_vars).args,
              env |-> EnvVarsOf(mat.cfg.env_vars, ref.name)]
        ELSE [transport |-> "sse", url |-> RemoteUrl(k)]

\* C28: every entry of the connections map is keyed by the name of a
\* reference of the configuration whose manifest was fetched in this run with
\* transport stdio or sse, and holds the values built from that reference's
\* own manifest; an iteration whose manifest declares another transport adds
\* no entry and changes none, although tool_config is still bound to the
\* descriptor of an earlier iteration.
C28_ConnectionsMap ==
    /\ [](mat.pc = "create" =>
             \A n \in DOMAIN mat.connections :
                \E k \in 1..Len(mat.tools) :
                   /\ mat.tools[k].name = n
                   /\ Connectable(k)
                   /\ mat.connections[n] = OwnConnection(k))
    /\ [][(Iterated /\ IterEnv.fetch
             /\ IterEnv.manifest.transport \notin {"stdio", "sse"}) =>
             Connections(mat'.updated_tools) = Connections(mat.updated_tools)]_vars

\* C28 witness: a finished run in which a reference with transport grpc came
\* after a materialized reference of another name, its iteration appending
\* the descriptor still bound, and the map holds the earlier tool only.
C28_Witness ==
    /\ mat.pc = "create"
    /\ Len(mat.tools) = 2
    /\ mat.tools[1].name # mat.tools[2].name
    /\ Connectable(1)
    /\ mat.envs[2].fetch /\ mat.envs[2].manifest.transport = "grpc"
    /\ mat.log = <<"appended", "appended">>
    /\ DOMAIN mat.connections = {mat.tools[1].name}

-----------------------------------------------------------------------------
(* Ownership of the opened clients (SpecProc).                              *)

\* C29 (as claimed): no orphaned connections.  When create_agent fails after
\* the client was opened, the client is closed before the error leaves
\* initialize_agent; and every open client is the client of the installed
\* handle.
C29_NoOrphanedConnections ==
    /\ \A i \in 1..MaxInits :
          (proc.inits[i].pc = "failed" /\ proc.inits[i].client # 0) =>
             proc.inits[i].client \notin proc.clients
    /\ \A c \in proc.clients : proc.agent # NoAgent /\ proc.agent.client = c

\* C30: handle snapshot.  A query binds the handle in the step of its
\* initialized-check, the handle installed at that moment, and keeps that
\* handle through all of its step events and to its end, whatever
\* initialize_agent installs meanwhile.
C30_HandleSnapshot ==
    [][\A id \in DOMAIN q :
          /\ (q[id].state = "PENDING" /\ q'[id].state = "STREAMING") =>
                (proc.agent # NoAgent /\ q'[id].agent = proc.agent)
          /\ q[id].state # "PENDING" => q'[id].agent = q[id].agent
          /\ q'[id].steps > q[id].steps =>
                (q[id].agent # NoAgent /\ q'[id].agent = q[id].agent)]_vars

\* C30 witness: the query is streaming and has consumed step events on the
\* handle of the first initialization while a later initialization has
\* installed another handle.
C30_Witness ==
    /\ q[1].state = "STREAMING"
    /\ q[1].steps = MaxSteps
    /\ q[1].agent.id = 1
    /\ proc.agent # NoAgent
    /\ proc.agent.id = 2

-----------------------------------------------------------------------------
(* The source of a timeout (SpecQuery).                                     *)

\* An event that reports the query as timed out.
IsTimeoutEvent(e, timeout_seconds) ==
    "error" \in DOMAIN e /\ e.error = TimeoutMessage(timeout_seconds)

\* C31 (as claimed): a timeout Error event is emitted only when the deadline
\* of the query elapsed; a TimeoutError raised inside the agent's step before
\* the deadline ends the query FAILED with the description of that exception.
C31_TimeoutOnlyOnDeadline ==
    \A id \in DOMAIN q :
        /\ (\E k \in 1..Len(q[id].events) :
               IsTimeoutEvent(q[id].events[k], q[id].timeout_seconds))
              => q[id].fired
        /\ q[id].state = "TIMED_OUT" => q[id].fired
        /\ (q[id].raised # "" /\ ~q[id].fired) =>
              /\ q[id].state = "FAILED"
              /\ Last(q[id].events) = ErrorEvent(FailureMessage(q[id].raised))

-----------------------------------------------------------------------------
(* Overlapping initialize_agent calls (SpecProc).                           *)

\* The initialize_agent call started last.
LastStarted ==
    CHOOSE i \in 1..MaxInits :
        /\ proc.inits[i].pc # "idle"
        /\ \A j \in 1..MaxInits : proc.inits[j].pc # "idle" => j <= i

\* The artifacts the subprocess descriptors of a connections map refer to.
StdioArtifacts(connections) ==
    { n \in DOMAIN connections : connections[n].transport = "stdio" }

\* C32 (as claimed): once two initialize_agent calls have both finished with
\* a handle, the installed handle and tool_count are those of the call that
\* started later, and the artifacts of the installed handle's subprocess
\* descriptors are in the staging area.  (Calls that do not overlap satisfy
\* this; the calls that break it are those of which the second started while
\* the first was suspended in create_agent.)
C32_OverlappingInits ==
    (/\ proc.serving
     /\ Cardinality({i \in 1..MaxInits : proc.inits[i].pc = "done"}) >= 2
     /\ \A i \in 1..MaxInits : proc.inits[i].pc \in {"idle", "done"})
    => /\ proc.agent.id = LastStarted
       /\ proc.tool_count = Cardinality(DOMAIN proc.inits[LastStarted].connections)
       /\ StdioArtifacts(proc.inits[proc.agent.id].connections) \subseteq temp_tools

-----------------------------------------------------------------------------
(* SpecConfig: the persisted user configuration under settings requests and *)
(* initialize_agent calls.  settings() loads the configuration (line 498),  *)
(* suspends in 'await request.form' (line 502), and saves what it loaded,   *)
(* changed by its branch.  initialize_agent loads at line 146 and saves at  *)
(* line 232 with no suspension between.                                     *)

MaxRequests == 2   \* settings POST requests in SpecConfig

\* A settings request that has not arrived.
NoRequest ==
    [pc |-> "idle", kind |-> "none", tool_name |-> "", config |-> <<>>,
     result |-> NoCall]

\* The registry's answers to add_tool in SpecConfig.
ConfigResponses ==
    { [network |-> "fails", status |-> 200, body |-> [malformed |-> TRUE]],
      [network |-> "ok", status |-> 200,
       body |-> [json |-> [version |-> "1.0.0", transport |-> "stdio",
                           file |-> ManifestFile, url |-> "http://manifest"]]] }

\* Lines 146-232 of initialize_agent as a function of the document it loads:
\* the document it saves and the staging area it leaves.
InitializeConfig(stored, staging, envs) ==
    LET r == MatLoop(MatStart(MatIdle(1), stored), ClearStaging(staging), envs)
        m == MatEnd(r.m)
    IN  [saved |-> save_user_config(stored, m.cfg), staging |-> r.staging]

InitConfig ==
    /\ config = [tools |-> <<>>, instructions |-> "",
                 env_vars |-> [weather |-> "KEY=1"],
                 selected_model |-> "gpt-4o", tool_versions |-> <<>>]
    /\ temp_tools = {}
    /\ mat = NoCall
    /\ q = QNone
    /\ checkpointer = <<>>
    /\ proc = [reqs |-> [r \in 1..MaxRequests |-> NoRequest], inits |-> 0]

\* settings(), lines 491-502: the configuration is loaded and the handler
\* suspends reading the form.
SettingsLoad(r) ==
    /\ proc.reqs[r].pc = "idle"
    /\ proc' = [proc EXCEPT !.reqs[r] = [@ EXCEPT !.pc = "loaded", !.config = config]]
    /\ UNCHANGED <<config, temp_tools, mat, q, checkpointer>>

\* Lines 506-544, 'add_tool' in form_data, on the configuration the request
\* loaded.
SettingsAddTool(r) ==
    /\ proc.reqs[r].pc = "loaded"
    /\ Len(proc.reqs[r].config.tools) < MaxTools
    /\ \E tool_name \in ToolNames, resp \in ConfigResponses :
          LET res == fetch_tool_manifest(tool_name, resp)
              loaded == proc.reqs[r].config
              changed == [loaded EXCEPT !.tools =
                             Append(@, [name |-> tool_name, url |-> NoUrl])]
          IN  /\ proc' = [proc EXCEPT !.reqs[r] =
                             [@ EXCEPT !.pc = "done", !.kind = "add_tool",
                                       !.tool_name = tool_name, !.result = res,
                                       !.config = IF res.returned THEN changed ELSE loaded]]
              /\ config' = IF res.returned THEN save_user_config(config, changed)
                           ELSE config
    /\ UNCHANGED <<temp_tools, mat, q, checkpointer>>

\* Lines 569-588, 'remove_tool' in form_data, on the configuration the
\* request loaded.
SettingsRemoveTool(r) ==
    /\ proc.reqs[r].pc = "loaded"
    /\ \E tool_name \in ToolNames :
          LET loaded == proc.reqs[r].config
              found == \E k \in 1..Len(loaded.tools) : loaded.tools[k].name = tool_name
              changed == [loaded EXCEPT
                             !.tools = SelectSeq(@, LAMBDA t : t.name # tool_name),
                             !.env_vars = [n \in DOMAIN @ \ {tool_name} |-> @[n]]]
          IN  /\ proc' = [proc EXCEPT !.reqs[r] =
                             [@ EXCEPT !.pc = "done", !.kind = "remove_tool",
                                       !.tool_name = tool_name,
                                       !.result = IF found THEN Returned("removed")
                                                  ELSE Raised("ValueError"),
                                       !.config = IF found THEN changed ELSE loaded]]
              /\ config' = IF found THEN save_user_config(config, changed) ELSE config
    /\ UNCHANGED <<temp_tools, mat, q, checkpointer>>

\* Lines 590-600, 'apply_settings' in form_data: the model and instructions
\* of the form are saved on the loaded configuration, and initialize_agent
\* runs at once, up to its save.
SettingsApply(r) ==
    /\ proc.reqs[r].pc = "loaded"
    /\ proc.inits < MaxInits
    /\ \E model \in {"gpt-4o", "claude-3-7-sonnet"} :
          LET loaded == proc.reqs[r].config
              changed == [loaded EXCEPT !.selected_model = model,
                                        !.instructions = "be brief"]
              stored == save_user_config(config, changed)
          IN  \E envs \in [1..Len(stored.tools) -> ProcIterEnvs] :
                 LET i == InitializeConfig(stored, temp_tools, envs)
                 IN  /\ proc' = [proc EXCEPT !.inits = @ + 1,
                                    !.reqs[r] = [@ EXCEPT !.pc = "done",
                                                    !.kind = "apply_settings",
                                                    !.result = Returned("applied"),
                                                    !.config = changed]]
                     /\ mat' = [handler |-> "initialize_agent", run |-> proc.inits + 1,
                                before |-> stored, loaded |-> stored, saved |-> i.saved]
                     /\ config' = i.saved
                     /\ temp_tools' = i.staging
    /\ UNCHANGED <<q, checkpointer>>

\* login(), line 291: initialize_agent(user_id) from its load to its save.
LoginInit ==
    /\ proc.inits < MaxInits
    /\ \E envs \in [1..Len(config.tools) -> ProcIterEnvs] :
          LET i == InitializeConfig(config, temp_tools, envs)
          IN  /\ mat' = [handler |-> "initialize_agent", run |-> proc.inits + 1,
                         before |-> config, loaded |-> config, saved |-> i.saved]
              /\ config' = i.saved
              /\ temp_tools' = i.staging
    /\ proc' = [proc EXCEPT !.inits = @ + 1]
    /\ UNCHANGED <<q, checkpointer>>

NextConfig ==
    \/ \E r \in 1..MaxRequests : SettingsLoad(r)
    \/ \E r \in 1..MaxRequests : SettingsAddTool(r)
    \/ \E r \in 1..MaxRequests : SettingsRemoveTool(r)
    \/ \E r \in 1..MaxRequests : SettingsApply(r)
    \/ LoginInit

SpecConfig == InitConfig /\ [][NextConfig]_vars

\* initialize_agent has just saved.
InitSaved == proc'.inits = proc.inits + 1

ConfigFrame == {"tools", "instructions", "env_vars", "selected_model"}

\* C33: initialize_agent changes only tool_versions in the persisted
\* configuration: what it saves equals, in tool references, instructions,
\* env_vars and selected_model, what was persisted when it loaded, which is
\* what was persisted right before it, also with settings requests loaded
\* and waiting.
C33_InitFrame ==
    [][InitSaved =>
          /\ config' = mat'.saved
          /\ mat'.loaded = mat'.before
          /\ \A f \in ConfigFrame : config'[f] = mat'.before[f]
          /\ DOMAIN config' = DOMAIN mat'.before]_vars

\* C33 witness: an initialization has saved a new tool_versions table for
\* the tool of the configuration while a settings request was loaded and
\* waiting.
C33_Witness ==
    /\ mat.handler = "initialize_agent"
    /\ mat.saved.tool_versions # mat.before.tool_versions
    /\ Len(mat.saved.tools) >= 1
    /\ \E r \in 1..MaxRequests : proc.reqs[r].pc = "loaded"
    /\ config = mat.saved

\* The settings requests that reported a tool as added.
AddedBy(r) ==
    /\ proc.reqs[r].pc = "done"
    /\ proc.reqs[r].kind = "add_tool"
    /\ proc.reqs[r].result.returned

\* A settings request has just saved without running initialize_agent.
SettingsSaved ==
    /\ config' # config
    /\ proc'.inits = proc.inits

\* C34 (as claimed): no lost settings update.  Once the settings requests
\* have completed, every tool added by a request that reported success, and
\* removed by none, is in the persisted tool list; and a settings save leaves
\* the persisted tool_versions as an initialization wrote them.
C34_NoLostUpdate ==
    /\ []((\A r \in 1..MaxRequests : proc.reqs[r].pc # "loaded") =>
             \A r \in 1..MaxRequests :
                (/\ AddedBy(r)
                 /\ \A o \in 1..MaxRequests :
                       ~(proc.reqs[o].kind = "remove_tool"
                         /\ proc.reqs[o].tool_name = proc.reqs[r].tool_name))
                => \E k \in 1..Len(config.tools) :
                      config.tools[k].name = proc.reqs[r].tool_name)
    /\ [][SettingsSaved => config'.tool_versions = config.tool_versions]_vars

-----------------------------------------------------------------------------
(* SpecTutor: the tutor graph of src/ai_tutor/agent.py.  mat holds the      *)
(* AgentState of one run of the compiled graph, the node to run next and    *)
(* the number of supersteps taken.                                          *)

MaxTutorSteps == 3   \* steps the model returns for one question

\* The graph is streamed with the default configuration (main.py 178, 342):
\* a run that has taken this many supersteps without reaching END is ended
\* with GraphRecursionError.
RecursionLimit == 25

\* One step of an explanation, as {"title", "content"}.
TutorStep(k) == [title |-> <<"Step", k>>, content |-> <<"working", k>>]

\* The three placeholder steps of lines 93-97, 102-106 and 111-115.
PlaceholderSteps ==
    << [title |-> <<"Step 1: Introduction">>,
        content |-> <<"This step introduces the concept.">>],
       [title |-> <<"Step 2: Basic Explanation">>,
        content |-> <<"This step provides a basic explanation to proceed.">>],
       [title |-> <<"Step 3: Summary">>,
        content |-> <<"This summarizes the key points.">>] >>

\* What structured_llm.invoke does in initialize_explanation: it raises, it
\* returns None, or it returns an ExplanationSteps with some steps.
StepResponses ==
    { [kind |-> "raises"], [kind |-> "none"] }
    \cup { [kind |-> "steps", steps |-> [k \in 1..n |-> TutorStep(k)]] :
              n \in 0..MaxTutorSteps }

\* What llm.invoke does in process_feedback: it raises, or it returns a
\* FeedbackDecision (action is a str: the enum is a hint to the model).
Decisions ==
    { [kind |-> "raises"] }
    \cup [kind : {"decision"},
          action : {"clarify_current", "proceed_to_next", "reexplain_current", "stop"},
          clarification : {<<"in more detail">>}]

NoFeedback == "None"

\* Lines 42-122.
initialize_explanation(state, resp) ==
    LET steps == IF resp.kind \in {"raises", "none"} THEN PlaceholderSteps
                 ELSE IF resp.steps = <<>> THEN PlaceholderSteps
                 ELSE resp.steps
    IN  [state EXCEPT !.explanation_steps = steps, !.current_step = 0,
                      !.next_action = "present_step"]

\* Lines 124-145.
present_current_step(state) ==
    IF state.explanation_steps = <<>>
    THEN [state EXCEPT !.current_explanation = <<"No explanation steps available.">>,
                       !.next_action = "end"]
    ELSE IF state.current_step < Len(state.explanation_steps)
    THEN [state EXCEPT
             !.current_explanation = state.explanation_steps[state.current_step + 1].content,
             !.next_action = "wait_for_feedback"]
    ELSE [state EXCEPT !.current_explanation = <<"We've completed all steps.">>,
                       !.next_action = "end"]

\* The action process_feedback acts on: lines 188-198.
ActionOf(decision) ==
    IF decision.kind = "raises" THEN "proceed_to_next" ELSE decision.action

\* A mutant of the proceed branch: the step after the next is taken.
process_feedback_skip(state, decision) ==
    IF state.explanation_steps = <<>>
    THEN [state EXCEPT !.current_explanation = <<"No steps available to explain.">>,
                       !.next_action = "end"]
    ELSE IF state.current_step >= Len(state.explanation_steps)
    THEN [state EXCEPT !.current_explanation = <<"All steps completed.">>,
                       !.next_action = "end"]
    ELSE IF ActionOf(decision) = "clarify_current"
    THEN [state EXCEPT !.current_explanation = decision.clarification,
                       !.next_action = "wait_for_feedback"]
    ELSE IF ActionOf(decision) = "reexplain_current"
    THEN [state EXCEPT !.current_explanation =
                          <<"Let me explain this differently: ">> \o decision.clarification,
                       !.next_action = "wait_for_feedback"]
    ELSE [state EXCEPT !.current_step = @ + 2, !.next_action = "present_step",
                       !.student_feedback = NoFeedback]

\* Lines 147-218.
process_feedback(state, decision) ==
    IF state.explanation_steps = <<>>
    THEN [state EXCEPT !.current_explanation = <<"No steps available to explain.">>,
                       !.next_action = "end"]
    ELSE IF state.current_step >= Len(state.explanation_steps)
    THEN [state EXCEPT !.current_explanation = <<"All steps completed.">>,
                       !.next_action = "end"]
    ELSE IF ActionOf(decision) = "clarify_current"
    THEN [state EXCEPT !.current_explanation = decision.clarification,
                       !.next_action = "wait_for_feedback"]
    ELSE IF ActionOf(decision) = "reexplain_current"
    THEN [state EXCEPT !.current_explanation =
                          <<"Let me explain this differently: ">> \o decision.clarification,
                       !.next_action = "wait_for_feedback"]
    ELSE [state EXCEPT !.current_step = @ + 1, !.next_action = "present_step",
                       !.student_feedback = NoFeedback]

\* Lines 227-243: the conditional edges.
RouteAfterPresent(state) ==
    IF state.next_action = "wait_for_feedback" THEN "process_feedback" ELSE "END"

RouteAfterFeedback(state) ==
    IF state.next_action = "present_step" THEN "present_step"
    ELSE IF state.next_action = "wait_for_feedback" THEN "process_feedback"
    ELSE "END"

\* The state a run is started with: the initial state of main.py 164-173, or
\* the state of an earlier run with the student's feedback (main.py 338-339).
InitTutor ==
    /\ \E current_step \in 0..2, student_feedback \in {NoFeedback, "why?"},
          steps \in {<<>>, PlaceholderSteps} :
          mat = [next |-> "initialize", hops |-> 0,
                 state |-> [current_step |-> current_step,
                            explanation_steps |-> steps,
                            student_feedback |-> student_feedback,
                            next_action |-> "", current_explanation |-> <<>>],
                 presented |-> <<>>, decision |-> [kind |-> "none"]]
    /\ config = <<>>
    /\ temp_tools = {}
    /\ q = QNone
    /\ checkpointer = <<>>
    /\ proc = ProcNone

Superstep(next, state) ==
    [mat EXCEPT !.next = next, !.state = state, !.hops = @ + 1]

TutorInitialize ==
    /\ mat.next = "initialize"
    /\ mat.hops < RecursionLimit
    /\ \E resp \in StepResponses :
          mat' = Superstep("present_step", initialize_explanation(mat.state, resp))
    /\ UNCHANGED <<config, temp_tools, q, checkpointer, proc>>

TutorPresent ==
    /\ mat.next = "present_step"
    /\ mat.hops < RecursionLimit
    /\ LET st == present_current_step(mat.state)
       IN  mat' = [Superstep(RouteAfterPresent(st), st) EXCEPT
                      !.presented = IF st.next_action = "wait_for_feedback"
                                    THEN Append(@, mat.state.current_step) ELSE @]
    /\ UNCHANGED <<config, temp_tools, q, checkpointer, proc>>

TutorFeedback ==
    /\ mat.next = "process_feedback"
    /\ mat.hops < RecursionLimit
    /\ \E decision \in Decisions :
          LET st == process_feedback(mat.state, decision)
          IN  mat' = [Superstep(RouteAfterFeedback(st), st) EXCEPT !.decision = decision]
    /\ UNCHANGED <<config, temp_tools, q, checkpointer, proc>>

\* The run has used its supersteps without reaching END.
TutorRecursionError ==
    /\ mat.next \notin {"END", "GraphRecursionError"}
    /\ mat.hops >= RecursionLimit
    /\ mat' = [mat EXCEPT !.next = "GraphRecursionError"]
    /\ UNCHANGED <<config, temp_tools, q, checkpointer, proc>>

NextTutor == TutorInitialize \/ TutorPresent \/ TutorFeedback \/ TutorRecursionError

SpecTutor == InitTutor /\ [][NextTutor]_vars

\* The executor goes on running the node that is due.
SpecTutorLive == SpecTutor /\ WF_vars(NextTutor)

C36_Termination ==
    /\ <>(mat.next = "END")
    /\ [](mat.next = "END" =>
             \/ mat.state.current_step = Len(mat.state.explanation_steps)
             \/ mat.state.explanation_steps = <<>>)

-----------------------------------------------------------------------------
(* SpecTutorApi: tutor_endpoint of src/ai_tutor/agent_api.py.  Titles are   *)
(* character sequences as far as startswith("Error") reads them; the        *)
(* narration of a step is left out.                                         *)

MaxApiSteps == 2   \* steps the model returns to generate_explanation

ErrorWord == <<"E", "r", "r", "o", "r">>

\* Titles of the placeholders of lines 223-229, 259-265 and 272-278.
ErrorGeneratingSolution == ErrorWord \o <<" Generating Solution">>
ErrorProcessingSolution == ErrorWord \o <<" Processing Solution">>
LLMError == <<"L", "L", "M", " Error">>

\* Titles and contents the model returns: a title, the empty title, and a
\* title of a genuine step that begins with the word Error.
ApiTitles == { <<"C", "o", "m", "p", "u", "t", "e", " A^2">>, <<>>,
               ErrorWord \o <<" analysis of the measurement">> }
ApiContents == { <<"$A^2 = ...$">>, <<>> }

\* What structured_llm.invoke does in generate_explanation.
ApiStepResponses ==
    { [kind |-> "raises"], [kind |-> "none"] }
    \cup { [kind |-> "steps", steps |-> st] :
              st \in SeqUpTo([title : ApiTitles, content : ApiContents], MaxApiSteps) }

\* What structured_llm.invoke does in process_feedback.
FeedbackResponses ==
    { [kind |-> "raises"] }
    \cup [kind : {"response"}, response : {<<"Look at step 1 again.">>},
          is_understood : BOOLEAN]

NoResponse == <<"None">>

\* TutorRequest.feedback: absent, empty, or a text.
TutorFeedbacks == {NoFeedback, "", "why?"}

\* Python's truth value of an optional string.
Truthy(feedback) == feedback \notin {NoFeedback, ""}

Placeholder(title) == <<[title |-> title, content |-> <<"placeholder">>]>>

\* Lines 232-256: the steps with a title and a content are kept.
KeptSteps(steps) == SelectSeq(steps, LAMBDA st : st.title # <<>> /\ st.content # <<>>)

\* Lines 173-285.  placeholder records that one of the three error
\* placeholders was returned instead of a generated solution.
generate_explanation(state, resp) ==
    LET out == IF resp.kind = "raises"
               THEN [steps |-> Placeholder(LLMError), placeholder |-> TRUE]
               ELSE IF resp.kind = "none" \/ resp.steps = <<>>
               THEN [steps |-> Placeholder(ErrorGeneratingSolution), placeholder |-> TRUE]
               ELSE IF KeptSteps(resp.steps) = <<>>
               THEN [steps |-> Placeholder(ErrorProcessingSolution), placeholder |-> TRUE]
               ELSE [steps |-> KeptSteps(resp.steps), placeholder |-> FALSE]
    IN  [state EXCEPT !.explanation_steps = out.steps, !.placeholder = out.placeholder,
                      !.response = NoResponse, !.is_understood = FALSE]

\* Lines 290-292 and 397-399: the test for an error placeholder.
FirstTitleIsError(state) ==
    /\ state.explanation_steps # <<>>
    /\ StartsWith(state.explanation_steps[1].title, ErrorWord)

\* agent_api.py lines 288-377, process_feedback.
api_process_feedback(state, fb) ==
    IF state.explanation_steps = <<>> \/ FirstTitleIsError(state)
    THEN [state EXCEPT !.response = <<"no valid solution loaded">>,
                       !.is_understood = FALSE]
    ELSE IF ~Truthy(state.student_feedback)
    THEN [state EXCEPT !.response = <<"No feedback was provided.">>]
    ELSE IF fb.kind = "raises"
    THEN [state EXCEPT !.response = <<"I encountered an issue processing your feedback.">>,
                       !.is_understood = FALSE, !.feedback_calls = @ + 1]
    ELSE [state EXCEPT !.response = fb.response, !.is_understood = fb.is_understood,
                       !.feedback_calls = @ + 1]

\* Lines 380-413.
tutor_endpoint(feedback, resp, fb) ==
    LET state == [explanation_steps |-> <<>>, student_feedback |-> feedback,
                  response |-> NoResponse, is_understood |-> FALSE,
                  placeholder |-> FALSE, feedback_calls |-> 0]
        s1 == generate_explanation(state, resp)
    IN  IF FirstTitleIsError(s1) THEN s1
        ELSE IF Truthy(feedback) THEN api_process_feedback(s1, fb)
        ELSE s1

InitTutorApi ==
    /\ mat = NoCall
    /\ config = <<>>
    /\ temp_tools = {}
    /\ q = QNone
    /\ checkpointer = <<>>
    /\ proc = ProcNone

\* One POST /tutor.
TutorEndpoint ==
    /\ \E feedback \in TutorFeedbacks, resp \in ApiStepResponses,
          fb \in FeedbackResponses :
          mat' = [handler |-> "tutor_endpoint", explanation |-> resp, feedback |-> fb,
                  state |-> tutor_endpoint(feedback, resp, fb)]
    /\ UNCHANGED <<config, temp_tools, q, checkpointer, proc>>

NextTutorApi == TutorEndpoint

SpecTutorApi == InitTutorApi /\ [][NextTutorApi]_vars

\* C37 (as claimed): generate_explanation always returns a step list that is
\* not empty, and whenever the list is an error placeholder (the model call
\* raised, returned nothing, or every step was dropped) tutor_endpoint
\* returns without processing feedback: response stays None, is_understood
\* stays False and no feedback model call is made.
C37_ErrorGating ==
    mat.handler = "tutor_endpoint" =>
        /\ mat.state.explanation_steps # <<>>
        /\ mat.state.placeholder =>
              /\ mat.state.response = NoResponse
              /\ ~mat.state.is_understood
              /\ mat.state.feedback_calls = 0

-----------------------------------------------------------------------------
(* SpecIndex: load_and_index_pdfs of src/create_indexes.py for one PDF.     *)
(* temp_tools is the disk (the checkpoint file and the saved index), config *)
(* the number of chunks of the PDF, mat the running process.  A chunk is    *)
(* its position; an index is the sequence of positions embedded into it.    *)

MaxChunks == 4      \* chunks of the PDF
MaxIndexRuns == 3   \* runs of create_indexes.py

\* Line 110, scaled down from 50.
batch_size == 2

\* The loop variable i before the first iteration of line 124.
NoIteration == -1

NoFile == [exists |-> FALSE]

Min(a, b) == IF a <= b THEN a ELSE b

\* Lines 125-127: the positions of the batch that starts at i.
Batch(i, n) == [k \in 1..(Min(i + batch_size, n) - i) |-> i + k - 1]

Positions(index) == IF index.exists THEN Range(index.ids) ELSE {}

NotRunning == {"idle", "skipped", "done", "crashed", "interrupted"}

InitIndex ==
    /\ config \in 1..MaxChunks
    /\ temp_tools = [checkpoint |-> NoFile, index |-> NoFile]
    /\ mat = [pc |-> "idle", runs |-> 0]
    /\ q = QNone
    /\ checkpointer = <<>>
    /\ proc = ProcNone

\* Lines 54-121: a run starts; a saved index without a checkpoint is skipped,
\* a checkpoint is resumed from with the saved index loaded.
StartRun ==
    /\ mat.pc \in NotRunning
    /\ mat.runs < MaxIndexRuns
    /\ mat' = IF temp_tools.index.exists /\ ~temp_tools.checkpoint.exists
              THEN [pc |-> "skipped", runs |-> mat.runs + 1]
              ELSE IF ~temp_tools.checkpoint.exists
              THEN [pc |-> "loop", runs |-> mat.runs + 1, i |-> NoIteration,
                    nxt |-> 0, vector_store |-> <<>>]
              ELSE IF ~temp_tools.index.exists
              THEN [pc |-> "crashed", runs |-> mat.runs + 1]
              ELSE [pc |-> "loop", runs |-> mat.runs + 1, i |-> NoIteration,
                    nxt |-> temp_tools.checkpoint.last_idx,
                    vector_store |-> temp_tools.index.ids]
    /\ UNCHANGED <<config, temp_tools, q, checkpointer, proc>>

\* Line 124 with no batch left: the loop ends and i keeps its last value.
LoopEnd ==
    /\ mat.pc = "loop"
    /\ mat.nxt >= config
    /\ mat' = [mat EXCEPT !.pc = "cleanup"]
    /\ UNCHANGED <<config, temp_tools, q, checkpointer, proc>>

\* Lines 124-140: the next batch is embedded, or add_texts raises and the
\* loop is left.
Embed ==
    /\ mat.pc = "loop"
    /\ mat.nxt < config
    /\ \E ok \in BOOLEAN :
          mat' = IF ok
                 THEN [mat EXCEPT !.pc = "embedded", !.i = mat.nxt,
                                  !.vector_store = @ \o Batch(mat.nxt, config)]
                 ELSE [mat EXCEPT !.pc = "cleanup", !.i = mat.nxt]
    /\ UNCHANGED <<config, temp_tools, q, checkpointer, proc>>

\* Lines 143-144.
WriteCheckpoint ==
    /\ mat.pc = "embedded"
    /\ temp_tools' = [temp_tools EXCEPT
                         !.checkpoint = [exists |-> TRUE, last_idx |-> mat.i + batch_size]]
    /\ mat' = [mat EXCEPT !.pc = "checkpointed"]
    /\ UNCHANGED <<config, q, checkpointer, proc>>

\* Lines 145-148.
SaveLocal ==
    /\ mat.pc = "checkpointed"
    /\ temp_tools' = [temp_tools EXCEPT
                         !.index = [exists |-> TRUE, ids |-> mat.vector_store]]
    /\ mat' = [mat EXCEPT !.pc = "loop", !.nxt = mat.i + batch_size]
    /\ UNCHANGED <<config, q, checkpointer, proc>>

\* Line 151: i is the start of the last batch the loop entered, whether the
\* batch was embedded or the loop was left by the break of line 140.
CleanupCondition(i, n, disk) == i + batch_size >= n /\ disk.checkpoint.exists

\* Lines 150-156; with i unbound line 151 raises NameError.
Cleanup ==
    /\ mat.pc = "cleanup"
    /\ IF mat.i = NoIteration
       THEN /\ mat' = [pc |-> "crashed", runs |-> mat.runs]
            /\ UNCHANGED temp_tools
       ELSE /\ mat' = [pc |-> "done", runs |-> mat.runs]
            /\ temp_tools' = IF CleanupCondition(mat.i, config, temp_tools)
                             THEN [temp_tools EXCEPT !.checkpoint = NoFile]
                             ELSE temp_tools
    /\ UNCHANGED <<config, q, checkpointer, proc>>

\* The process is killed between two steps; the disk stays as it is.
Interrupt ==
    /\ mat.pc \notin NotRunning
    /\ mat' = [pc |-> "interrupted", runs |-> mat.runs]
    /\ UNCHANGED <<config, temp_tools, q, checkpointer, proc>>

NextIndex ==
    \/ StartRun
    \/ LoopEnd
    \/ Embed
    \/ WriteCheckpoint
    \/ SaveLocal
    \/ Cleanup
    \/ Interrupt

SpecIndex == InitIndex /\ [][NextIndex]_vars

\* C38 (as claimed): the checkpoint file of a PDF is removed only after every
\* chunk of the PDF has been embedded and saved, so a saved index with no
\* checkpoint file, which later runs skip, contains all chunks of its PDF,
\* also when the embedding call of the last batch fails.
C38_CompleteWhenNoCheckpoint ==
    (temp_tools.index.exists /\ ~temp_tools.checkpoint.exists) =>
        Positions(temp_tools.index) = 0..(config - 1)

\* C39 (as claimed): wherever the run can be interrupted, a checkpoint file
\* with last_idx = k means that the index saved on disk holds the embeddings
\* of all chunks at positions below k, each of them once.
C39_CheckpointCovered ==
    temp_tools.checkpoint.exists =>
        /\ temp_tools.index.exists
        /\ temp_tools.index.ids =
              [p \in 1..Min(temp_tools.checkpoint.last_idx, config) |-> p - 1]

====
